---- MODULE Spec2Model ----
(***************************************************************************)
(* The media proxy of libnero (crates/processor): the registration API of  *)
(* Processor, the /image, /video, /torrent and /torrent/{id}/stream routes *)
(* and the abstract torrent backend they drive.                            *)
(***************************************************************************)
EXTENDS Integers, Sequences, FiniteSets, TLC

\* ------------------------------------------------------------------ bounds

\* Number of HTTP handler tasks that may be in flight at once.
NumClients == 2

\* Number of add_torrent calls the backend accepts (ids 1..MaxTorrents).
MaxTorrents == 3

Clients == 1 .. NumClients

\* ------------------------------------------------------------ option type

\* Option<T>: None is the empty sequence, Some(v) the one-element sequence.
NoneV == << >>

Some(v) == << v >>

IsSome(o) == Len(o) = 1

\* ------------------------------------------------------------------- data

\* The proxy's listen socket (ServerState.addr).
Addr == "127.0.0.1:4321"

\* Header multimaps the requests carry, as sequences of <<name, value>>.
NoHeaders == << >>

Referer == << << "referer", "https://ex/" >> >>

\* The magnet URI in use.
Magnet == "magnet:?xt=urn:btih:aa"

\* Request URIs: absolute, with and without a path extension, one with an
\* upper-case host, and one relative (scheme and authority are optional in
\* the guest's outgoing request, wit/mod.rs into_http_request).
URIs == { "https://ex/v.mp4", "https://ex/t.torrent", "https://ex/p",
          "https://EX/v.mp4", "/v.mp4" }

\* http::Uri accessors on the URIs above.
UriScheme(uri) == IF uri = "/v.mp4" THEN "" ELSE "https"

UriAuthority(uri) ==
    CASE uri = "/v.mp4" -> ""
      [] uri = "https://EX/v.mp4" -> "EX"
      [] OTHER -> "ex"

UriPath(uri) ==
    CASE uri = "https://ex/t.torrent" -> "/t.torrent"
      [] uri = "https://ex/p" -> "/p"
      [] OTHER -> "/v.mp4"

HttpRequest(uri, headers) ==
    [uri |-> uri, method |-> "GET", headers |-> headers, body |-> NoneV]

\* Requests the facade hands to the proxy.  Header-less requests never reach
\* a cache, so every URI is tried without headers; proxied requests use the
\* three absolute lower-case URIs.
HeaderlessRequests == { HttpRequest(u, NoHeaders) : u \in URIs }

ProxiedRequests ==
    { HttpRequest(u, Referer) :
        u \in { "https://ex/v.mp4", "https://ex/t.torrent", "https://ex/p" } }

Requests == HeaderlessRequests \cup ProxiedRequests

\* TorrentSource: Http(Box<HttpRequest>) | MagnetUri(String).
TorrentSourceHttp(req) == [tag |-> "Http", req |-> Some(req), uri |-> ""]

TorrentSourceMagnet(uri) == [tag |-> "MagnetUri", req |-> NoneV, uri |-> uri]

TorrentSources ==
    { TorrentSourceMagnet(Magnet),
      TorrentSourceHttp(HttpRequest("https://ex/t.torrent", Referer)) }

\* Selected file indices (Vec<usize>) a registration may carry.
IndexLists == { << 0 >>, << 1 >>, << 0, 1 >> }

\* enum Request { Http(..), Torrent { source, file_indices } }
RequestHttp(req) ==
    [tag |-> "Http", req |-> Some(req), source |-> NoneV, file_indices |-> << >>]

RequestTorrent(source, file_indices) ==
    [tag |-> "Torrent", req |-> NoneV, source |-> Some(source),
     file_indices |-> file_indices]

\* ------------------------------------------------------------------ URLs

\* A url::Url, by components.
Url(scheme, authority, path) ==
    [scheme |-> scheme, authority |-> authority, path |-> path]

\* The host of a special-scheme URL is lower-cased by the URL parser.
AsciiLower(authority) == IF authority = "EX" THEN "ex" ELSE authority

\* Result<Url>: Url::parse(&request.uri().to_string()).  A URI without a
\* scheme is a relative reference, which Url::parse refuses.
UrlParse(uri) ==
    IF UriScheme(uri) = ""
    THEN [ok |-> FALSE, url |-> Url("", "", << >>)]
    ELSE [ok |-> TRUE,
          url |-> Url(UriScheme(uri), AsciiLower(UriAuthority(uri)),
                      << UriPath(uri) >>)]

\* format!("{}://{}/{route}/{request_hash}", Scheme::HTTP, addr)
ProxyUrl(route, request_hash) == Url("http", Addr, << route >> \o request_hash)

\* format!("{}://{}/torrent/{}/stream/{}", Scheme::HTTP, addr, id, index)
StreamUrl(id, index) ==
    Url("http", Addr, << "torrent", ToString(id), "stream", ToString(index) >>)

\* ----------------------------------------------------------- fingerprints

\* Lexicographic rank of the (lower-case) header names in use; the order
\* sort_unstable_by_key(|(k, _)| *k) sorts by.
NameRank(name) ==
    CASE name = "accept" -> 1
      [] name = "cookie" -> 2
      [] name = "referer" -> 3
      [] OTHER -> 4

RECURSIVE InsertByName(_, _)
InsertByName(pair, sorted) ==
    IF sorted = << >> THEN << pair >>
    ELSE IF NameRank(pair[1]) < NameRank(Head(sorted)[1])
         THEN << pair >> \o sorted
         ELSE << Head(sorted) >> \o InsertByName(pair, Tail(sorted))

RECURSIVE SortHeaders(_)
SortHeaders(headers) ==
    IF headers = << >> THEN << >>
    ELSE InsertByName(Head(headers), SortHeaders(Tail(headers)))

RECURSIVE HashHeaders(_)
HashHeaders(sorted) ==
    IF sorted = << >> THEN << >>
    ELSE << Head(sorted)[1], Head(sorted)[2] >> \o HashHeaders(Tail(sorted))

\* The fingerprint is the sequence of items folded into the hasher: equal
\* sequences give equal u64 values, and the cache treats a collision of
\* different sequences as the same request.
get_request_hash(request) ==
    << request.uri, request.method >>
        \o HashHeaders(SortHeaders(request.headers))
        \o (IF IsSome(request.body) THEN << request.body[1] >> ELSE << >>)

get_torrent_source_hash(source) ==
    IF source.tag = "Http"
    THEN << "0" >> \o get_request_hash(source.req[1])
    ELSE << "1", source.uri >>

\* ----------------------------------------------------------- MIME detector

Mime(type, subtype) == [type |-> type, subtype |-> subtype]

Mimes == { Mime("video", "mp4"), Mime("image", "jpeg"),
           Mime("application", "x-bittorrent") }

\* Result<Option<Mime>, reqwest::Error>
MimeErr == [tag |-> "Err", mime |-> Mime("", "")]

MimeNone == [tag |-> "None", mime |-> Mime("", "")]

MimeSome(m) == [tag |-> "Some", mime |-> m]

\* What one network tier (HEAD probe, content sniff) may come back with.
TierOutcomes == { MimeErr, MimeNone } \cup { MimeSome(m) : m \in Mimes }

\* path.rsplit('.'): the '.'-separated pieces of the path, last piece last.
DotSplit(path) ==
    CASE path = "/v.mp4" -> << "/v", "mp4" >>
      [] path = "/t.torrent" -> << "/t", "torrent" >>
      [] OTHER -> << path >>

ContainsSlash(piece) == piece \in { "/v", "/t", "/p" }

\* mime_guess::from_ext(extension).first()
from_ext(extension) ==
    CASE extension = "mp4" -> MimeSome(Mime("video", "mp4"))
      [] extension = "torrent" -> MimeSome(Mime("application", "x-bittorrent"))
      [] extension = "jpg" -> MimeSome(Mime("image", "jpeg"))
      [] OTHER -> MimeNone

detect_from_path(request) ==
    LET path == UriPath(request.uri)
        pieces == DotSplit(path)
        extension == pieces[Len(pieces)]
    IN  IF extension = path \/ ContainsSlash(extension)
        THEN MimeNone
        ELSE from_ext(extension)

\* The three tiers in order; head and content are what the two network
\* tiers return when they are reached.
mime_type(request, head, content) ==
    IF detect_from_path(request).tag = "Some" THEN detect_from_path(request)
    ELSE IF head.tag = "Err" THEN MimeErr
    ELSE IF head.tag = "Some" THEN head
    ELSE content

\* enum CurrentVideo { Http(..), Torrent { torrent_id } }
CurrentVideoTorrent(id) == [tag |-> "Torrent", torrent_id |-> id]

\* ---------------------------------------------------------------- backend

\* The files of the torrent a source names, by index (stable across
\* list_files and add_torrent).
TorrentFilesOf(source) ==
    IF source.tag = "MagnetUri"
    THEN << "e01.mkv", "e02.mkv" >>
    ELSE << "movie.mkv" >>

\* struct TorrentFile { index, name, .. }
TorrentFile(index, name) == [index |-> index, name |-> name]

InSeq(x, seq) == \E i \in 1 .. Len(seq) : seq[i] = x

\* add_torrent's file list: the torrent's files, enumerated from 0, kept
\* when the engine reports them included (only_files = file_indices).
RECURSIVE IncludedFrom(_, _, _)
IncludedFrom(names, index, file_indices) ==
    IF names = << >> THEN << >>
    ELSE (IF InSeq(index, file_indices)
          THEN << TorrentFile(index, Head(names)) >>
          ELSE << >>)
         \o IncludedFrom(Tail(names), index + 1, file_indices)

IncludedFiles(source, file_indices) ==
    IncludedFrom(TorrentFilesOf(source), 0, file_indices)

\* struct Torrent { id, files, .. }
Torrent(id, files) == [id |-> id, files |-> files]

\* -------------------------------------------------------------------- M3U

\* The playlist after "#EXTM3U\n": one "#EXTINF:-1,{name}\n{url}\n" per file.
RECURSIVE M3uEntries(_, _)
M3uEntries(id, files) ==
    IF files = << >> THEN << >>
    ELSE << [extinf |-> Head(files).name,
             url |-> StreamUrl(id, Head(files).index)] >>
         \o M3uEntries(id, Tail(files))

\* ------------------------------------------------------------------ cache

\* Cache<K, V> as a finite map; get is non-consuming, remove consuming.
CacheHas(cache, k) == k \in DOMAIN cache

CacheInsert(cache, k, v) ==
    [x \in DOMAIN cache \cup {k} |-> IF x = k THEN v ELSE cache[x]]

CacheRemove(cache, k) == [x \in DOMAIN cache \ {k} |-> cache[x]]

EmptyCache == [x \in {} |-> NoneV]

\* ------------------------------------------------------------------ state

VARIABLES
    torrent_backend,   \* ServerState.torrent_backend: TRUE when Some(backend)
    backend_readers,   \* handlers holding torrent_backend.read()
    image_requests,    \* ServerState.image_requests
    video_requests,    \* ServerState.video_requests
    current_video,     \* ServerState.current_video: Option<CurrentVideo>
    current_writer,    \* the handler holding current_video.write(), 0 if none
    added,             \* backend: number of sessions added (ids 1..added)
    cancelled,         \* backend: ids cancel_torrent was called with
    pc,                \* where each handler task stands
    local,             \* each handler task's locals
    out,               \* the latest result returned to a caller
    extension,         \* Nero.extension: Option<WasmExtension>
    extension_readers, \* facade calls holding extension.read()
    fpc,               \* where each facade call stands
    fl,                \* each facade call's locals
    stores,            \* the wasmtime stores alive, by id
    calc               \* the input and result of a function applied alone

vars == << torrent_backend, backend_readers, image_requests, video_requests,
           current_video, current_writer, added, cancelled, pc, local, out,
           extension, extension_readers, fpc, fl, stores, calc >>

\* struct Nero's own state and the calls on it.
facade == << extension, extension_readers, fpc, fl, stores >>

server == << torrent_backend, backend_readers, image_requests, video_requests,
             current_video, current_writer >>

backend == << added, cancelled >>

\* The sessions added and not yet cancelled.
Active == (1 .. added) \ cancelled

NoUrl == Url("", "", << >>)

\* What a caller sees: the result of a registration or an HTTP response.
Result(op, status, error, url, body, mime_calls) ==
    [op |-> op, status |-> status, error |-> error, url |-> url,
     body |-> body, mime_calls |-> mime_calls]

NoLocal == [key |-> << >>, entry |-> NoneV, call |-> NoneV, torrent |-> NoneV,
            cancel_id |-> 0, cancel_ok |-> TRUE, stream |-> << >>]

ServerInit ==
    /\ torrent_backend = FALSE
    /\ backend_readers = {}
    /\ image_requests = EmptyCache
    /\ video_requests = EmptyCache
    /\ current_video = NoneV
    /\ current_writer = 0
    /\ added = 0
    /\ cancelled = {}
    /\ pc = [c \in Clients |-> "idle"]
    /\ local = [c \in Clients |-> NoLocal]
    /\ out = Result("init", 0, "", NoUrl, << >>, 0)

\* Nero::new: no extension loaded, no call in flight.
NoFacadeLocal == [op |-> "", ext |-> NoneV, store |-> 0, resource |-> NoneV,
                  source |-> NoneV, seen |-> {}]

FacadeInit ==
    /\ extension = NoneV
    /\ extension_readers = {}
    /\ fpc = [c \in Clients |-> "idle"]
    /\ fl = [c \in Clients |-> NoFacadeLocal]
    /\ stores = << >>

NoCalc == [fn |-> ""]

Init == ServerInit /\ FacadeInit /\ calc = NoCalc

\* ----------------------------------------------------------- registration

Ok(op, url, mime_calls) == Result(op, 0, "", url, << >>, mime_calls)

Err(op, error, mime_calls) ==
    Result(op, 0, error, NoUrl, << >>, mime_calls)

\* A shortcut test that never takes the shortcut.
headers_is_empty_never(request) == FALSE

\* request.headers().is_empty()
headers_is_empty(request) == request.headers = << >>

\* The no-header shortcut: Ok(Url::parse(&request.uri().to_string())?)
Passthrough(op, request) ==
    IF UrlParse(request.uri).ok
    THEN Ok(op, UrlParse(request.uri).url, 0)
    ELSE Err(op, "relative URL without a base", 0)

\* register_image_request that answers with the URL and stores nothing.
register_image_request_no_insert(request, head, content) ==
    LET op == "register_image_request"
        m == mime_type(request, head, content)
    IN  /\ out' = IF headers_is_empty(request) THEN Passthrough(op, request)
                  ELSE IF m.tag = "Err" THEN Err(op, "reqwest error", 1)
                  ELSE IF m.tag = "None"
                  THEN Err(op, "Could not detect mime type", 1)
                  ELSE Ok(op, ProxyUrl("image", get_request_hash(request)), 1)
        /\ UNCHANGED << server, backend, pc, local >>

register_image_request(request, head, content) ==
    LET op == "register_image_request"
        m == mime_type(request, head, content)
        request_hash == get_request_hash(request)
    IN  /\ IF headers_is_empty(request)
           THEN /\ out' = Passthrough(op, request)
                /\ UNCHANGED image_requests
           ELSE IF m.tag = "Err"
           THEN /\ out' = Err(op, "reqwest error", 1)
                /\ UNCHANGED image_requests
           ELSE IF m.tag = "None"
           THEN /\ out' = Err(op, "Could not detect mime type", 1)
                /\ UNCHANGED image_requests
           ELSE IF m.mime.subtype = "application/x-bittorrent"
           THEN /\ out' = Err(op, "Torrents are not supported for images", 1)
                /\ UNCHANGED image_requests
           ELSE /\ image_requests' =
                       CacheInsert(image_requests, request_hash, request)
                /\ out' = Ok(op, ProxyUrl("image", request_hash), 1)
        /\ UNCHANGED << torrent_backend, backend_readers, video_requests,
                        current_video, current_writer, backend, pc, local >>

\* register_video_request that answers with the URL and stores nothing.
register_video_request_no_insert(request, head, content) ==
    LET op == "register_video_request"
        m == mime_type(request, head, content)
    IN  /\ out' = IF headers_is_empty(request) THEN Passthrough(op, request)
                  ELSE IF m.tag = "Err" THEN Err(op, "reqwest error", 1)
                  ELSE IF m.tag = "None"
                  THEN Err(op, "Could not detect mime type", 1)
                  ELSE IF m.mime.type = "video"
                  THEN Ok(op, ProxyUrl("video", get_request_hash(request)), 1)
                  ELSE Err(op, "Unsupported media type", 1)
        /\ UNCHANGED << server, backend, pc, local >>

register_video_request(request, head, content) ==
    LET op == "register_video_request"
        m == mime_type(request, head, content)
        request_hash == get_request_hash(request)
    IN  /\ IF headers_is_empty(request)
           THEN /\ out' = Passthrough(op, request)
                /\ UNCHANGED video_requests
           ELSE IF m.tag = "Err"
           THEN /\ out' = Err(op, "reqwest error", 1)
                /\ UNCHANGED video_requests
           ELSE IF m.tag = "None"
           THEN /\ out' = Err(op, "Could not detect mime type", 1)
                /\ UNCHANGED video_requests
           ELSE IF m.mime.type = "video"
           THEN /\ video_requests' =
                       CacheInsert(video_requests, request_hash,
                                   RequestHttp(request))
                /\ out' = Ok(op, ProxyUrl("video", request_hash), 1)
           ELSE IF /\ m.mime.type = "application"
                   /\ m.mime.subtype = "application/x-bittorrent"
           THEN /\ out' = Err(op,
                              "Torrent file. Use register_torrent() instead.",
                              1)
                /\ UNCHANGED video_requests
           ELSE /\ out' = Err(op, "Unsupported media type", 1)
                /\ UNCHANGED video_requests
        /\ UNCHANGED << torrent_backend, backend_readers, image_requests,
                        current_video, current_writer, backend, pc, local >>

\* register_torrent that leaves an entry already cached under the key.
register_torrent_keep_first(source, file_indices) ==
    LET request_hash == get_torrent_source_hash(source)
    IN  /\ video_requests' =
               IF CacheHas(video_requests, request_hash) THEN video_requests
               ELSE CacheInsert(video_requests, request_hash,
                                RequestTorrent(source, file_indices))
        /\ out' = Ok("register_torrent", ProxyUrl("torrent", request_hash), 0)
        /\ UNCHANGED << torrent_backend, backend_readers, image_requests,
                        current_video, current_writer, backend, pc, local >>

register_torrent(source, file_indices) ==
    LET request_hash == get_torrent_source_hash(source)
    IN  /\ video_requests' =
               CacheInsert(video_requests, request_hash,
                           RequestTorrent(source, file_indices))
        /\ out' = Ok("register_torrent", ProxyUrl("torrent", request_hash), 0)
        /\ UNCHANGED << torrent_backend, backend_readers, image_requests,
                        current_video, current_writer, backend, pc, local >>

\* Both take torrent_backend.write(), which waits for every read guard.
set_torrent_backend ==
    /\ backend_readers = {}
    /\ torrent_backend' = TRUE
    /\ UNCHANGED << backend_readers, image_requests, video_requests,
                    current_video, current_writer, backend, pc, local, out >>

\* remove_torrent_backend that cancels the sessions still active.
remove_torrent_backend_cancelling ==
    /\ backend_readers = {}
    /\ torrent_backend' = FALSE
    /\ cancelled' = 1 .. added
    /\ UNCHANGED << backend_readers, image_requests, video_requests,
                    current_video, current_writer, added, pc, local, out >>

remove_torrent_backend ==
    /\ backend_readers = {}
    /\ torrent_backend' = FALSE
    /\ UNCHANGED << backend_readers, image_requests, video_requests,
                    current_video, current_writer, backend, pc, local, out >>

\* ----------------------------------------------------------- HTTP surface

Response(op, status, error, body) ==
    Result(op, status, error, NoUrl, body, 0)

\* Every key a GET may carry: each fingerprint a registration can produce,
\* and one no registration produces.
UnknownKey == << "no such fingerprint" >>

ImageKeys == { get_request_hash(r) : r \in ProxiedRequests }

TorrentKeys == { get_torrent_source_hash(src) : src \in TorrentSources }

Keys == ImageKeys \cup TorrentKeys \cup { UnknownKey }

\* How replaying the cached request upstream ends.
UpstreamOutcomes == { "ok", "reqwest", "status" }

Replayed(op, upstream) ==
    CASE upstream = "ok" -> Response(op, 200, "", << "upstream body" >>)
      [] upstream = "reqwest" -> Response(op, 502, "Reqwest HTTP error", << >>)
      [] OTHER -> Response(op, 502, "Remote server returned status", << >>)

\* enum Error and its IntoResponse status codes.
NotFound(op) == Response(op, 404, "Request not found", << >>)

InvalidRequestType(op) == Response(op, 400, "Invalid request type", << >>)

TorrentSupportDisabled(op) ==
    Response(op, 400, "Torrent support is disabled", << >>)

TorrentBackendError(op) == Response(op, 500, "Torrent error", << >>)

\* GET /image/{request_hash}: the entry is read and left in place.
handle_image_request(c, request_hash, upstream) ==
    /\ pc[c] = "idle"
    /\ out' = IF CacheHas(image_requests, request_hash)
              THEN Replayed("GET /image", upstream)
              ELSE NotFound("GET /image")
    /\ UNCHANGED << server, backend, pc, local >>

\* GET /video/{request_hash}: the entry is consumed on a hit.
handle_video_request(c, request_hash, upstream) ==
    /\ pc[c] = "idle"
    /\ IF ~CacheHas(video_requests, request_hash)
       THEN /\ out' = NotFound("GET /video")
            /\ UNCHANGED video_requests
       ELSE /\ video_requests' = CacheRemove(video_requests, request_hash)
            /\ out' = IF video_requests[request_hash].tag = "Http"
                      THEN Replayed("GET /video", upstream)
                      ELSE InvalidRequestType("GET /video")
    /\ UNCHANGED << torrent_backend, backend_readers, image_requests,
                    current_video, current_writer, backend, pc, local >>

\* TTL expiry or capacity eviction of one entry.
evict_image(k) ==
    /\ CacheHas(image_requests, k)
    /\ image_requests' = CacheRemove(image_requests, k)
    /\ UNCHANGED << torrent_backend, backend_readers, video_requests,
                    current_video, current_writer, backend, pc, local, out >>

evict_video(k) ==
    /\ CacheHas(video_requests, k)
    /\ video_requests' = CacheRemove(video_requests, k)
    /\ UNCHANGED << torrent_backend, backend_readers, image_requests,
                    current_video, current_writer, backend, pc, local, out >>

\* ------------------------------------------------ GET /torrent/{request_hash}

Finish(c) ==
    /\ pc' = [pc EXCEPT ![c] = "idle"]
    /\ local' = [local EXCEPT ![c] = NoLocal]
    /\ backend_readers' = backend_readers \ {c}

\* torrent_remove that reads the entry with get and leaves it cached.
torrent_remove_get(c, request_hash) ==
    /\ pc[c] = "idle"
    /\ IF CacheHas(video_requests, request_hash)
       THEN /\ local' = [local EXCEPT ![c] =
                   [NoLocal EXCEPT !.key = request_hash,
                                   !.entry = Some(video_requests[request_hash])]]
            /\ pc' = [pc EXCEPT ![c] = "backend"]
            /\ UNCHANGED out
       ELSE /\ out' = NotFound("GET /torrent")
            /\ UNCHANGED << local, pc >>
    /\ UNCHANGED << torrent_backend, backend_readers, image_requests,
                    video_requests, current_video, current_writer, backend >>

\* state.video_requests.remove(&request_hash).await.ok_or(Error::NotFound)?
torrent_remove(c, request_hash) ==
    /\ pc[c] = "idle"
    /\ IF CacheHas(video_requests, request_hash)
       THEN /\ video_requests' = CacheRemove(video_requests, request_hash)
            /\ local' = [local EXCEPT ![c] =
                   [NoLocal EXCEPT !.key = request_hash,
                                   !.entry = Some(video_requests[request_hash])]]
            /\ pc' = [pc EXCEPT ![c] = "backend"]
            /\ UNCHANGED out
       ELSE /\ out' = NotFound("GET /torrent")
            /\ UNCHANGED << video_requests, local, pc >>
    /\ UNCHANGED << torrent_backend, backend_readers, image_requests,
                    current_video, current_writer, backend >>

\* torrent_backend_read with the two checks in the other order.
torrent_backend_read_variant_first(c) ==
    /\ pc[c] = "backend"
    /\ IF local[c].entry[1].tag # "Torrent"
       THEN /\ out' = InvalidRequestType("GET /torrent")
            /\ Finish(c)
       ELSE IF ~torrent_backend
       THEN /\ out' = TorrentSupportDisabled("GET /torrent")
            /\ Finish(c)
       ELSE /\ backend_readers' = backend_readers \cup {c}
            /\ pc' = [pc EXCEPT ![c] = "take"]
            /\ UNCHANGED << local, out >>
    /\ UNCHANGED << torrent_backend, image_requests, video_requests,
                    current_video, current_writer, backend >>

\* The backend read guard, then the variant of the stored request.
torrent_backend_read(c) ==
    /\ pc[c] = "backend"
    /\ IF ~torrent_backend
       THEN /\ out' = TorrentSupportDisabled("GET /torrent")
            /\ Finish(c)
       ELSE IF local[c].entry[1].tag # "Torrent"
       THEN /\ out' = InvalidRequestType("GET /torrent")
            /\ Finish(c)
       ELSE /\ backend_readers' = backend_readers \cup {c}
            /\ pc' = [pc EXCEPT ![c] = "take"]
            /\ UNCHANGED << local, out >>
    /\ UNCHANGED << torrent_backend, image_requests, video_requests,
                    current_video, current_writer, backend >>

\* torrent_take that empties the slot and never cancels what it held.
torrent_take_no_cancel(c) ==
    /\ pc[c] = "take"
    /\ current_writer = 0
    /\ current_video' = NoneV
    /\ pc' = [pc EXCEPT ![c] = "add"]
    /\ UNCHANGED << torrent_backend, backend_readers, image_requests,
                    video_requests, current_writer, backend, local, out >>

\* torrent_take that reads the slot and leaves in it what it held.
torrent_take_keep(c) ==
    /\ pc[c] = "take"
    /\ current_writer = 0
    /\ IF IsSome(current_video) /\ current_video[1].tag = "Torrent"
       THEN /\ current_writer' = c
            /\ local' = [local EXCEPT
                   ![c].cancel_id = current_video[1].torrent_id]
            /\ pc' = [pc EXCEPT ![c] = "cancel"]
       ELSE /\ pc' = [pc EXCEPT ![c] = "add"]
            /\ UNCHANGED << current_writer, local >>
    /\ UNCHANGED << torrent_backend, backend_readers, image_requests,
                    video_requests, current_video, backend, out >>

\* current_video.write().await, then current.take(); the write guard stays
\* held over the cancel_torrent call when the slot held a torrent.
torrent_take(c) ==
    /\ pc[c] = "take"
    /\ current_writer = 0
    /\ current_video' = NoneV
    /\ IF IsSome(current_video) /\ current_video[1].tag = "Torrent"
       THEN /\ current_writer' = c
            /\ local' = [local EXCEPT
                   ![c].cancel_id = current_video[1].torrent_id]
            /\ pc' = [pc EXCEPT ![c] = "cancel"]
       ELSE /\ pc' = [pc EXCEPT ![c] = "add"]
            /\ UNCHANGED << current_writer, local >>
    /\ UNCHANGED << torrent_backend, backend_readers, image_requests,
                    video_requests, backend, out >>

\* cancel_torrent with its error returned to the client.
torrent_cancel_or_fail(c, ok) ==
    /\ pc[c] = "cancel"
    /\ cancelled' = cancelled \cup { local[c].cancel_id }
    /\ current_writer' = 0
    /\ IF ok
       THEN /\ pc' = [pc EXCEPT ![c] = "add"]
            /\ UNCHANGED << backend_readers, local, out >>
       ELSE /\ out' = TorrentBackendError("GET /torrent")
            /\ Finish(c)
    /\ UNCHANGED << torrent_backend, image_requests, video_requests,
                    current_video, added >>

\* backend.cancel_torrent(&torrent_id).await.ok(): the backend receives the
\* call, its result (ok or an error) is dropped, the write guard is
\* released.
torrent_cancel(c, ok) ==
    /\ pc[c] = "cancel"
    /\ cancelled' = cancelled \cup { local[c].cancel_id }
    /\ current_writer' = 0
    /\ local' = [local EXCEPT ![c].cancel_ok = ok]
    /\ pc' = [pc EXCEPT ![c] = "add"]
    /\ UNCHANGED << torrent_backend, backend_readers, image_requests,
                    video_requests, current_video, added, out >>

\* add_torrent called without the selection: every file of the torrent.
AddTorrentCall_all_files(entry) ==
    [source |-> entry.source[1], file_indices |-> << 0, 1 >>]

\* The arguments of backend.add_torrent(source, Some(AddTorrentOptions {
\* file_indices })) for the stored request.
AddTorrentCall(entry) ==
    [source |-> entry.source[1], file_indices |-> entry.file_indices]

\* backend.add_torrent(..).await?  ok is whether the engine accepts the
\* torrent; a torrent with no included file is an error of the backend.
torrent_add(c, ok) ==
    LET call == AddTorrentCall(local[c].entry[1])
        files == IncludedFiles(call.source, call.file_indices)
    IN  /\ pc[c] = "add"
        /\ IF ok /\ files # << >>
           THEN /\ added < MaxTorrents
                /\ added' = added + 1
                /\ local' = [local EXCEPT
                       ![c].call = Some(call),
                       ![c].torrent = Some(Torrent(added + 1, files))]
                /\ pc' = [pc EXCEPT ![c] = "store"]
                /\ UNCHANGED << backend_readers, out >>
           ELSE /\ out' = TorrentBackendError("GET /torrent")
                /\ Finish(c)
                /\ UNCHANGED added
        /\ UNCHANGED << torrent_backend, image_requests, video_requests,
                        current_video, current_writer, cancelled >>

\* *current = Some(CurrentVideo::Torrent { torrent_id }), then the playlist.
torrent_store(c) ==
    LET t == local[c].torrent[1]
    IN  /\ pc[c] = "store"
        /\ current_writer = 0
        /\ current_video' = Some(CurrentVideoTorrent(t.id))
        /\ out' = Response("GET /torrent", 200, "",
                           M3uEntries(t.id, t.files))
        /\ Finish(c)
        /\ UNCHANGED << torrent_backend, image_requests, video_requests,
                        current_writer, backend >>

\* --------------------------------- GET /torrent/{torrent_id}/stream/{index}

\* What backend.handle_stream_request comes back with: a response, or an
\* error with its message.
StreamOutcomes == { "ok", "initializing", "metadata", "error" }

\* A test of the error message that holds for none.
contains_not_ready_never(message) == FALSE

\* err.to_string().contains("initializing")
\*     || err.to_string().contains("metadata")
contains_not_ready(message) == message \in { "initializing", "metadata" }

\* Error::TorrentBackend(err) as a response: 500, "Torrent error: {err}".
StreamBackendError(op, message) ==
    Response(op, 500, "Torrent error", << message >>)

\* stream_start that does not look at the backend slot.
stream_start_unchecked(c, torrent_id, file_index) ==
    /\ pc[c] = "idle"
    /\ backend_readers' = backend_readers \cup {c}
    /\ local' = [local EXCEPT
           ![c] = [NoLocal EXCEPT !.stream = << torrent_id, file_index >>]]
    /\ pc' = [pc EXCEPT ![c] = "stream"]
    /\ UNCHANGED << torrent_backend, image_requests, video_requests,
                    current_video, current_writer, backend, out >>

stream_start(c, torrent_id, file_index) ==
    /\ pc[c] = "idle"
    /\ IF ~torrent_backend
       THEN /\ out' = TorrentSupportDisabled("GET /torrent/stream")
            /\ UNCHANGED << backend_readers, pc, local >>
       ELSE /\ backend_readers' = backend_readers \cup {c}
            /\ local' = [local EXCEPT
                   ![c] = [NoLocal EXCEPT !.stream = << torrent_id, file_index >>]]
            /\ pc' = [pc EXCEPT ![c] = "stream"]
            /\ UNCHANGED out
    /\ UNCHANGED << torrent_backend, image_requests, video_requests,
                    current_video, current_writer, backend >>

stream_call(c, outcome) ==
    /\ pc[c] = "stream"
    /\ CASE outcome = "ok" ->
              /\ out' = Response("GET /torrent/stream", 200, "",
                                 << "stream body" >>)
              /\ Finish(c)
         [] outcome # "ok" /\ contains_not_ready(outcome) ->
              /\ pc' = [pc EXCEPT ![c] = "sleep"]
              /\ local' = [local EXCEPT
                     ![c].stream = << @[1], @[2], outcome >>]
              /\ UNCHANGED << backend_readers, out >>
         [] OTHER ->
              /\ out' = StreamBackendError("GET /torrent/stream", outcome)
              /\ Finish(c)
    /\ UNCHANGED << torrent_backend, image_requests, video_requests,
                    current_video, current_writer, backend >>

\* tokio::time::sleep(Duration::from_millis(200)).await; continue
stream_sleep(c) ==
    /\ pc[c] = "sleep"
    /\ pc' = [pc EXCEPT ![c] = "stream"]
    /\ local' = [local EXCEPT ![c].stream = << @[1], @[2] >>]
    /\ UNCHANGED << server, backend, out >>

\* ---------------------------------------------------------- specification

\* The network tiers' answers that matter for a request: none when the
\* request is header-less or its path decides, else what HEAD answers and,
\* when HEAD yields nothing, what the content sniff answers.
NetworkTiers(r) ==
    IF r.headers = << >> \/ detect_from_path(r).tag = "Some"
    THEN { << MimeNone, MimeNone >> }
    ELSE { << head, MimeNone >> : head \in TierOutcomes }
         \cup { << MimeNone, content >> : content \in TierOutcomes }

\* What a step of the proxy alone leaves as it is.
ProxyOnly == UNCHANGED << facade, calc >>

RegisterImage ==
    \E r \in Requests : \E net \in NetworkTiers(r) :
        register_image_request(r, net[1], net[2]) /\ ProxyOnly

RegisterVideo ==
    \E r \in Requests : \E net \in NetworkTiers(r) :
        register_video_request(r, net[1], net[2]) /\ ProxyOnly

RegisterTorrent ==
    \E src \in TorrentSources, file_indices \in IndexLists :
        register_torrent(src, file_indices) /\ ProxyOnly

Configure ==
    \/ set_torrent_backend /\ ProxyOnly
    \/ remove_torrent_backend /\ ProxyOnly

Evict ==
    \E k \in Keys :
        \/ evict_image(k) /\ ProxyOnly
        \/ evict_video(k) /\ ProxyOnly

Fetch ==
    \E c \in Clients, k \in Keys, upstream \in UpstreamOutcomes :
        \/ handle_image_request(c, k, upstream) /\ ProxyOnly
        \/ handle_video_request(c, k, upstream) /\ ProxyOnly

TorrentRoute(c) ==
    \/ \E k \in Keys : torrent_remove(c, k) /\ ProxyOnly
    \/ torrent_backend_read(c) /\ ProxyOnly
    \/ torrent_take(c) /\ ProxyOnly
    \/ \E ok \in BOOLEAN : torrent_cancel(c, ok) /\ ProxyOnly
    \/ \E ok \in BOOLEAN : torrent_add(c, ok) /\ ProxyOnly
    \/ torrent_store(c) /\ ProxyOnly

StreamRoute(c) ==
    \/ \E id \in 0 .. added : stream_start(c, id, 0) /\ ProxyOnly
    \/ \E outcome \in StreamOutcomes : stream_call(c, outcome) /\ ProxyOnly
    \/ stream_sleep(c) /\ ProxyOnly

\* The caches' life: registration, the /image and /video routes, eviction.
Next == RegisterImage \/ RegisterVideo \/ Evict \/ Fetch

Spec == Init /\ [][Next]_vars

\* The torrent routes with requests handled one at a time: a handler takes
\* steps only while every other handler is idle.
OneAtATime(c) == \A d \in Clients \ {c} : pc[d] = "idle"

VideoFile == HttpRequest("https://ex/v.mp4", Referer)

TorrentNext ==
    \/ RegisterTorrent
    \/ register_video_request(VideoFile, MimeNone, MimeNone) /\ ProxyOnly
    \/ Configure
    \/ \E c \in Clients : OneAtATime(c) /\ TorrentRoute(c)
    \/ \E c \in Clients : OneAtATime(c) /\ StreamRoute(c)

TorrentSpec == Init /\ [][TorrentNext]_vars

\* The same with every stream handler that can take a step taking one in
\* the end: the runtime polls a task that is ready, and a sleep ends.
StreamFairSpec ==
    /\ TorrentSpec
    /\ \A c \in Clients : WF_vars(OneAtATime(c) /\ StreamRoute(c))

\* The /torrent/{h} route under any interleaving of its handlers.
ConcNext ==
    \/ \E src \in TorrentSources : register_torrent(src, << 0 >>) /\ ProxyOnly
    \/ set_torrent_backend /\ ProxyOnly
    \/ \E c \in Clients : TorrentRoute(c)

ConcSpec == Init /\ [][ConcNext]_vars

\* The same interleaving with the registrations of one magnet link.
SwitchNext ==
    \/ register_torrent(TorrentSourceMagnet(Magnet), << 0 >>) /\ ProxyOnly
    \/ set_torrent_backend /\ ProxyOnly
    \/ \E c \in Clients : TorrentRoute(c)

SwitchSpec == Init /\ [][SwitchNext]_vars

\* One registration at a time: a key is registered when the cache is empty
\* and no request is under way, and then any number of handlers ask for it.
RoundNext ==
    \/ /\ \A c \in Clients : pc[c] = "idle"
       /\ video_requests = EmptyCache
       /\ register_torrent(TorrentSourceMagnet(Magnet), << 0 >>)
       /\ ProxyOnly
    \/ set_torrent_backend /\ ProxyOnly
    \/ \E c \in Clients : TorrentRoute(c)

RoundSpec == Init /\ [][RoundNext]_vars

\* ====================================================== functions alone

\* What a function applied on its own leaves as it is.
OnlyCalc == UNCHANGED << server, backend, pc, local, out, facade >>

\* A function's input before it is applied, and with its result after.
Applied(fn, input, result) == [fn |-> fn, input |-> input, result |-> result]

Pending(fn, input) == Applied(fn, input, NoneV)

\* One source registered twice, with the file indices of the first and of
\* the second call and the URLs returned so far, and then asked for.
TwiceInit ==
    /\ ServerInit
    /\ FacadeInit
    /\ \E source \in TorrentSources, first \in IndexLists,
          second \in IndexLists :
           calc = Pending("register_torrent",
                          [source |-> source, first |-> first,
                           second |-> second])

RegisterAgain ==
    /\ calc.fn = "register_torrent"
    /\ Len(calc.result) < 2
    /\ register_torrent(calc.input.source,
                        IF calc.result = << >> THEN calc.input.first
                        ELSE calc.input.second)
    /\ calc' = [calc EXCEPT !.result = Append(calc.result, out'.url)]
    /\ UNCHANGED facade

TwiceNext ==
    \/ RegisterAgain
    \/ set_torrent_backend /\ ProxyOnly
    \/ \E c \in Clients : Len(calc.result) = 2 /\ TorrentRoute(c)

TwiceSpec == TwiceInit /\ [][TwiceNext]_vars

\* ------------------------------------------------------- extension version

\* A pre-release identifier: numeric, or alphanumeric with its place in
\* ASCII order among the identifiers used here.
NumericId(n) == [numeric |-> TRUE, n |-> n, rank |-> 0]

AlnumId(rank) == [numeric |-> FALSE, n |-> 0, rank |-> rank]

\* "Draft" < "alpha" < "draft" < "draft2" < "rc" in ASCII order.
IdUpperDraft == AlnumId(1)
IdAlpha == AlnumId(2)
IdDraft == AlnumId(3)
IdDraft2 == AlnumId(4)
IdRc == AlnumId(5)

\* semver::Version { major, minor, patch, pre, build }
Version(major, minor, patch, pre, build) ==
    [major |-> major, minor |-> minor, patch |-> patch, pre |-> pre,
     build |-> build]

\* semver precedence of two identifiers: numeric below alphanumeric,
\* numeric by value, alphanumeric in ASCII order.  -1, 0 or 1.
CmpIdentifier(a, b) ==
    IF a.numeric /\ b.numeric
    THEN (IF a.n < b.n THEN -1 ELSE IF a.n > b.n THEN 1 ELSE 0)
    ELSE IF a.numeric THEN -1
    ELSE IF b.numeric THEN 1
    ELSE IF a.rank < b.rank THEN -1
    ELSE IF a.rank > b.rank THEN 1
    ELSE 0

\* Identifier lists compare field by field; a longer list wins over its
\* prefix.
RECURSIVE CmpIdentifiers(_, _)
CmpIdentifiers(a, b) ==
    IF a = << >> /\ b = << >> THEN 0
    ELSE IF a = << >> THEN -1
    ELSE IF b = << >> THEN 1
    ELSE IF CmpIdentifier(Head(a), Head(b)) # 0
    THEN CmpIdentifier(Head(a), Head(b))
    ELSE CmpIdentifiers(Tail(a), Tail(b))

\* A version with a pre-release is below the same version without one.
CmpPre(a, b) ==
    IF a = << >> /\ b = << >> THEN 0
    ELSE IF a = << >> THEN 1
    ELSE IF b = << >> THEN -1
    ELSE CmpIdentifiers(a, b)

CmpNat(a, b) == IF a < b THEN -1 ELSE IF a > b THEN 1 ELSE 0

\* impl Ord for semver::Version: major, minor, patch, pre, then build.
CmpVersion(a, b) ==
    IF CmpNat(a.major, b.major) # 0 THEN CmpNat(a.major, b.major)
    ELSE IF CmpNat(a.minor, b.minor) # 0 THEN CmpNat(a.minor, b.minor)
    ELSE IF CmpNat(a.patch, b.patch) # 0 THEN CmpNat(a.patch, b.patch)
    ELSE IF CmpPre(a.pre, b.pre) # 0 THEN CmpPre(a.pre, b.pre)
    ELSE CmpIdentifiers(a.build, b.build)

\* since_v0_1_0_draft::MIN_VER, 0.1.0-draft
MIN_VER == Version(0, 1, 0, << IdDraft >>, << >>)

\* An ordering that ignores the pre-release tag.
VersionAtLeast_release_only(v, min) ==
    CmpVersion(Version(v.major, v.minor, v.patch, << >>, << >>),
               Version(min.major, min.minor, min.patch, << >>, << >>)) >= 0

\* v >= *since_v0_1_0_draft::MIN_VER
VersionAtLeast(v, min) == CmpVersion(v, min) >= 0

\* WasmExtension::instantiate_async: the binding chosen for the version;
\* linkable is whether linker, instantiate_pre and ExtensionPre::new succeed.
instantiate_async(version, linkable) ==
    IF VersionAtLeast(version, MIN_VER)
    THEN (IF linkable
          THEN [ok |-> TRUE, extension_pre |-> "V0_1_0_DRAFT", error |-> ""]
          ELSE [ok |-> FALSE, extension_pre |-> "", error |-> "link error"])
    ELSE [ok |-> FALSE, extension_pre |-> "",
          error |-> "unsupported extension version"]

PreReleases ==
    { << >>, << IdAlpha >>, << IdDraft >>, << IdDraft, NumericId(1) >>,
      << IdDraft2 >>, << IdRc >>, << NumericId(1) >>, << IdUpperDraft >> }

Builds == { << >>, << AlnumId(1) >> }

Versions ==
    { Version(major, minor, patch, pre, build) :
          major \in 0 .. 1, minor \in 0 .. 2, patch \in 0 .. 1,
          pre \in PreReleases, build \in Builds }

VersionInit ==
    /\ ServerInit
    /\ FacadeInit
    /\ \E v \in Versions, linkable \in BOOLEAN :
           calc = Pending("instantiate_async",
                          [version |-> v, linkable |-> linkable])

ApplyInstantiate ==
    /\ calc.fn = "instantiate_async"
    /\ calc.result = NoneV
    /\ calc' = [calc EXCEPT
           !.result = Some(instantiate_async(calc.input.version,
                                             calc.input.linkable))]
    /\ OnlyCalc

VersionSpec == VersionInit /\ [][ApplyInstantiate]_vars

\* --------------------------------------------------- request fingerprint

MaxHeaders == 3

\* The (name, value) entries appended to a HeaderMap, in insertion order.
HeaderEntries ==
    UNION { [1 .. n -> { "accept", "cookie" } \X { "1", "2" }] :
                n \in 0 .. MaxHeaders }

\* The same entries in another insertion order.
Permuted(entries, sigma) == [i \in 1 .. Len(entries) |-> entries[sigma[i]]]

Orders(n) ==
    { sigma \in [1 .. n -> 1 .. n] :
          \A i, j \in 1 .. n : i # j => sigma[i] # sigma[j] }

\* The values appended under a name, in the order they were appended.
RECURSIVE ValuesOf(_, _)
ValuesOf(name, entries) ==
    IF entries = << >> THEN << >>
    ELSE (IF Head(entries)[1] = name THEN << Head(entries) >> ELSE << >>)
             \o ValuesOf(name, Tail(entries))

\* The entries under other names.
RECURSIVE WithoutName(_, _)
WithoutName(name, entries) ==
    IF entries = << >> THEN << >>
    ELSE (IF Head(entries)[1] = name THEN << >> ELSE << Head(entries) >>)
             \o WithoutName(name, Tail(entries))

\* request.headers().iter(): the names in the order they first came in,
\* each with its values in the order they were appended.
RECURSIVE HeaderMapIter(_)
HeaderMapIter(entries) ==
    IF entries = << >> THEN << >>
    ELSE ValuesOf(Head(entries)[1], entries)
             \o HeaderMapIter(WithoutName(Head(entries)[1], entries))

\* sort_unstable_by_key promises no order among entries of equal key; the
\* order it leaves them in is settled by the keys alone, since keys are all
\* the sort compares.  The two ways a build may leave them: as they came,
\* or turned around.
TieOrders == { "keep", "reverse" }

RECURSIVE InsertByNameFirst(_, _)
InsertByNameFirst(pair, sorted) ==
    IF sorted = << >> THEN << pair >>
    ELSE IF NameRank(pair[1]) <= NameRank(Head(sorted)[1])
         THEN << pair >> \o sorted
         ELSE << Head(sorted) >> \o InsertByNameFirst(pair, Tail(sorted))

RECURSIVE SortHeadersKeep(_)
SortHeadersKeep(headers) ==
    IF headers = << >> THEN << >>
    ELSE InsertByNameFirst(Head(headers), SortHeadersKeep(Tail(headers)))

\* headers.sort_unstable_by_key(|(k, _)| *k)
sort_unstable_by_key(headers, ties) ==
    IF ties = "keep" THEN SortHeadersKeep(headers) ELSE SortHeaders(headers)

\* get_request_hash on a request whose HeaderMap was filled with the
\* entries in the given order: the sequence of items folded into the hasher.
request_hash_of(uri, entries, ties) ==
    << uri, "GET" >>
        \o HashHeaders(sort_unstable_by_key(HeaderMapIter(entries), ties))

HashInit ==
    /\ ServerInit
    /\ FacadeInit
    /\ \E entries \in HeaderEntries :
       \E sigma \in Orders(Len(entries)) :
       \E ties \in TieOrders :
           calc = Pending("get_request_hash",
                          [entries |-> entries,
                           permuted |-> Permuted(entries, sigma),
                           ties |-> ties])

\* The fingerprints of the request and of the request with its entries
\* permuted.
ApplyRequestHash ==
    /\ calc.fn = "get_request_hash"
    /\ calc.result = NoneV
    /\ calc' = [calc EXCEPT
           !.result = Some(<< request_hash_of("https://ex/p",
                                              calc.input.entries,
                                              calc.input.ties),
                              request_hash_of("https://ex/p",
                                              calc.input.permuted,
                                              calc.input.ties) >>)]
    /\ OnlyCalc

HashSpec == HashInit /\ [][ApplyRequestHash]_vars

\* ------------------------------------------------------ hop-by-hop headers

HOP_BY_HOP_HEADERS ==
    { "connection", "keep-alive", "proxy-authenticate", "proxy-authorization",
      "te", "trailers", "transfer-encoding", "upgrade" }

\* The (name, value) entries a fetched response may carry; names are held
\* in lower case by HeaderMap.
ResponseEntries ==
    { << "connection", "close" >>, << "connection", "x-foo," >>,
      << "connection", "X-Foo , te" >>, << "x-foo", "1" >>,
      << "te", "trailers" >>, << "accept", "1" >>, << "upgrade", "h2c" >> }

ResponseHeaders ==
    UNION { [1 .. n -> ResponseEntries] : n \in 0 .. MaxHeaders }

\* conn_str.split(',') with token.trim() on each piece
SplitTrim(value) ==
    CASE value = "x-foo," -> << "x-foo", "" >>
      [] value = "X-Foo , te" -> << "X-Foo", "te" >>
      [] OTHER -> << value >>

\* HeaderName::from_bytes: the name in lower case, or an error for bytes
\* that are not a header name.
HeaderName_from_bytes(token) ==
    CASE token = "X-Foo" -> Some("x-foo")
      [] token = "" -> NoneV
      [] OTHER -> Some(token)

\* self.get(name): the first value under the name, if any.
HeaderGet(entries, name) ==
    IF ValuesOf(name, entries) = << >> THEN NoneV
    ELSE Some(ValuesOf(name, entries)[1][2])

\* self.remove(name) for each of the names: every value under them goes.
RemoveNames(entries, names) ==
    SelectSeq(entries, LAMBDA e : e[1] \notin names)

\* The names the tokens of one Connection value stand for.
TokenNames(value) ==
    { HeaderName_from_bytes(SplitTrim(value)[i])[1] :
          i \in { j \in 1 .. Len(SplitTrim(value)) :
                      /\ SplitTrim(value)[j] # ""
                      /\ IsSome(HeaderName_from_bytes(SplitTrim(value)[j])) } }

\* HopByHopHeadersExt::remove_hop_by_hop_headers
remove_hop_by_hop_headers(entries) ==
    LET connection_val_owned == HeaderGet(entries, "connection")
        named == IF IsSome(connection_val_owned)
                 THEN TokenNames(connection_val_owned[1])
                 ELSE {}
    IN  RemoveNames(RemoveNames(entries, named), HOP_BY_HOP_HEADERS)

StripInit ==
    /\ ServerInit
    /\ FacadeInit
    /\ \E entries \in ResponseHeaders :
           calc = Pending("remove_hop_by_hop_headers", entries)

ApplyStrip ==
    /\ calc.fn = "remove_hop_by_hop_headers"
    /\ calc.result = NoneV
    /\ calc' = [calc EXCEPT
           !.result = Some(remove_hop_by_hop_headers(calc.input))]
    /\ OnlyCalc

StripSpec == StripInit /\ [][ApplyStrip]_vars

\* ------------------------------------------------------------- cache TTL

MaxTime == 3

CacheKeys == { 1, 2 }

CacheNames == { "image_requests", "video_requests" }

\* A cache with its two knobs and, for each key it holds, the time the
\* entry was inserted.
TimedCache(ttl, capacity, entries) ==
    [ttl |-> ttl, capacity |-> capacity, entries |-> entries]

Cache_default == TimedCache(NoneV, NoneV, << >>)

with_ttl(cache, ttl) == [cache EXCEPT !.ttl = Some(ttl)]

with_capacity(cache, capacity) == [cache EXCEPT !.capacity = Some(capacity)]

\* struct CacheConfig { image_ttl, image_capacity, video_ttl, video_capacity }
CacheConfig(image_ttl, image_capacity, video_ttl, video_capacity) ==
    [image_ttl |-> image_ttl, image_capacity |-> image_capacity,
     video_ttl |-> video_ttl, video_capacity |-> video_capacity]

CacheConfigs ==
    { CacheConfig(image_ttl, capacity, video_ttl, capacity) :
          image_ttl \in { NoneV, Some(1) },
          video_ttl \in { NoneV, Some(2) },
          capacity \in { NoneV, Some(1) } }

Configured(cache, ttl, capacity) ==
    LET timed == IF IsSome(ttl) THEN with_ttl(cache, ttl[1]) ELSE cache
    IN  IF IsSome(capacity) THEN with_capacity(timed, capacity[1]) ELSE timed

\* The two caches built with each other's TTL.
with_cache_config_swapped(cache_config) ==
    [image_requests |-> Configured(Cache_default, cache_config.video_ttl,
                                   cache_config.image_capacity),
     video_requests |-> Configured(Cache_default, cache_config.image_ttl,
                                   cache_config.video_capacity)]

\* Processor::with_cache_config: the two caches of ServerState.
with_cache_config(cache_config) ==
    [image_requests |-> Configured(Cache_default, cache_config.image_ttl,
                                   cache_config.image_capacity),
     video_requests |-> Configured(Cache_default, cache_config.video_ttl,
                                   cache_config.video_capacity)]

\* The entry under k is held and its TTL, if the cache has one, is not over.
Live(cache, k, now) ==
    /\ k \in DOMAIN cache.entries
    /\ IsSome(cache.ttl) => now <= cache.entries[k] + cache.ttl[1]

Without(entries, k) == [x \in DOMAIN entries \ {k} |-> entries[x]]

\* What get or remove answered last: the cache, the key, and whether an
\* entry came back.
Got(name, k, hit) == [name |-> name, key |-> k, hit |-> hit]

NoGot == Got("", 0, FALSE)

CacheInit ==
    /\ ServerInit
    /\ FacadeInit
    /\ \E cache_config \in CacheConfigs :
           calc = [fn |-> "Cache", config |-> cache_config,
                   caches |-> with_cache_config(cache_config),
                   now |-> 0, got |-> NoGot]

\* Time passes.
cache_tick ==
    /\ calc.fn = "Cache"
    /\ calc.now < MaxTime
    /\ calc' = [calc EXCEPT !.now = @ + 1]
    /\ OnlyCalc

\* insert(k, v); once the capacity is exceeded some entry is evicted.
cache_insert(name, k, victim) ==
    LET cache == calc.caches[name]
        entries == (k :> calc.now) @@ cache.entries
        over == /\ IsSome(cache.capacity)
                /\ Cardinality(DOMAIN entries) > cache.capacity[1]
    IN  /\ calc.fn = "Cache"
        /\ victim \in DOMAIN entries
        /\ calc' = [calc EXCEPT
               !.caches[name].entries =
                   IF over THEN Without(entries, victim) ELSE entries,
               !.got = NoGot]
        /\ OnlyCalc

\* get(&k): non-consuming.
cache_get(name, k) ==
    /\ calc.fn = "Cache"
    /\ calc' = [calc EXCEPT
           !.got = Got(name, k, Live(calc.caches[name], k, calc.now))]
    /\ OnlyCalc

\* remove(&k): consuming.
cache_remove(name, k) ==
    /\ calc.fn = "Cache"
    /\ calc' = [calc EXCEPT
           !.got = Got(name, k, Live(calc.caches[name], k, calc.now)),
           !.caches[name].entries = Without(@, k)]
    /\ OnlyCalc

CacheNext ==
    \/ cache_tick
    \/ \E name \in CacheNames, k \in CacheKeys, victim \in CacheKeys :
           cache_insert(name, k, victim)
    \/ \E name \in CacheNames, k \in CacheKeys : cache_get(name, k)
    \/ \E name \in CacheNames, k \in CacheKeys : cache_remove(name, k)

CacheSpec == CacheInit /\ [][CacheNext]_vars

\* ---------------------------------------------------------- range requests

\* The width the u64 arithmetic of the byte range is carried out at.
Width == 3

Modulus == 2 ^ Width

U64 == 0 .. Modulus - 1

\* A piece of the Range value on either side of the '-': empty, the digits
\* of a number that fits, or something that is no number.
TextEmpty == [kind |-> "empty", n |-> 0]

TextBad == [kind |-> "bad", n |-> 0]

TextNum(n) == [kind |-> "num", n |-> n]

Texts == { TextEmpty, TextBad } \cup { TextNum(n) : n \in U64 }

\* str::parse::<u64>().ok()
parse_u64(text) == IF text.kind = "num" THEN Some(text.n) ELSE NoneV

\* The Range header of the request: absent, or "{unit}={start}-{end}".
RangeHeader(unit, start, end) == Some([unit |-> unit, start |-> start,
                                       end |-> end])

RangeHeaders ==
    { NoneV } \cup { RangeHeader(unit, start, end) :
                         unit \in { "bytes", "items" },
                         start \in Texts, end \in Texts }

\* An arithmetic overflow panics in a build with overflow checks and wraps
\* in one without.
Builds_overflow == { "checked", "wrapping" }

Checked(n, build) ==
    IF n \in U64 THEN [panic |-> FALSE, n |-> n]
    ELSE IF build = "checked" THEN [panic |-> TRUE, n |-> 0]
    ELSE [panic |-> FALSE, n |-> n % Modulus]

\* The end of the range taken as given, the last byte left out.
range_end_exclusive(v, build) == Checked(v, build)

\* end.parse::<u64>().ok().map(|v| v + 1)
range_end(v, build) == Checked(v + 1, build)

\* The bytes of the streamed file: byte i of the file is i.
FileBytes(total_len) == [i \in 1 .. total_len |-> i - 1]

\* stream.seek(SeekFrom::Start(start)) then stream.take(len): what is read.
SeekTake(total_len, start, len) ==
    IF start >= total_len THEN << >>
    ELSE SubSeq(FileBytes(total_len), start + 1,
                IF start + len < total_len THEN start + len ELSE total_len)

StreamResponse(status, content_range, content_length, body, panic) ==
    [status |-> status, content_range |-> content_range,
     content_length |-> content_length, body |-> body, panic |-> panic]

Panicked == StreamResponse(0, NoneV, 0, << >>, TRUE)

\* RqbitTorrentBackend::handle_stream_request once the stream is open.
handle_stream_request(total_len, header, build) ==
    LET start == IF IsSome(header) /\ header[1].unit = "bytes"
                 THEN parse_u64(header[1].start) ELSE NoneV
        parsed_end == IF IsSome(header) THEN parse_u64(header[1].end)
                      ELSE NoneV
    IN  IF start = NoneV
        THEN StreamResponse(200, NoneV, total_len, FileBytes(total_len),
                            FALSE)
        ELSE LET plus_one == IF IsSome(parsed_end)
                             THEN range_end(parsed_end[1], build)
                             ELSE [panic |-> FALSE, n |-> total_len]
                 end == plus_one.n
                 len == Checked(end - start[1], build)
                 last == Checked(end - 1, build)
             IN  IF plus_one.panic \/ len.panic \/ last.panic
                 THEN Panicked
                 ELSE StreamResponse(206,
                                     Some(<< "bytes", start[1], last.n,
                                             total_len >>),
                                     len.n,
                                     SeekTake(total_len, start[1], len.n),
                                     FALSE)

RangeInit ==
    /\ ServerInit
    /\ FacadeInit
    /\ \E total_len \in U64, header \in RangeHeaders,
          build \in Builds_overflow :
           calc = Pending("handle_stream_request",
                          [total_len |-> total_len, header |-> header,
                           build |-> build])

ApplyStreamRequest ==
    /\ calc.fn = "handle_stream_request"
    /\ calc.result = NoneV
    /\ calc' = [calc EXCEPT
           !.result = Some(handle_stream_request(calc.input.total_len,
                                                 calc.input.header,
                                                 calc.input.build))]
    /\ OnlyCalc

RangeSpec == RangeInit /\ [][ApplyStreamRequest]_vars

\* ------------------------------------------------------------ MIME tiers

\* What the upstream answers to a probe: the request fails, or a response
\* comes with a status, maybe a Content-Type, maybe a first chunk.
ProbeResponse(failed, success, content_type, chunk) ==
    [failed |-> failed, success |-> success, content_type |-> content_type,
     chunk |-> chunk]

ProbeFailed == ProbeResponse(TRUE, FALSE, NoneV, NoneV)

HeadResponses ==
    { ProbeFailed, ProbeResponse(FALSE, FALSE, Some("video/mp4"), NoneV) }
    \cup { ProbeResponse(FALSE, TRUE, content_type, NoneV) :
               content_type \in { NoneV, Some("not a type"),
                                  Some("video/mp4"), Some("image/jpeg") } }

ContentResponses ==
    { ProbeFailed, ProbeResponse(FALSE, FALSE, NoneV, Some("mp4 bytes")) }
    \cup { ProbeResponse(FALSE, TRUE, NoneV, chunk) :
               chunk \in { NoneV, Some("unknown bytes"), Some("mp4 bytes"),
                           Some("jpeg bytes") } }

\* Mime::from_str(..).ok()
Mime_from_str(text) ==
    CASE text = "video/mp4" -> MimeSome(Mime("video", "mp4"))
      [] text = "image/jpeg" -> MimeSome(Mime("image", "jpeg"))
      [] OTHER -> MimeNone

\* infer::get(&chunk) and the type it names
infer_get(chunk) ==
    CASE chunk = "mp4 bytes" -> Mime_from_str("video/mp4")
      [] chunk = "jpeg bytes" -> Mime_from_str("image/jpeg")
      [] OTHER -> MimeNone

\* detect_from_head once client.head(..).send() has come back
detect_from_head(res) ==
    IF res.failed THEN MimeErr
    ELSE IF ~res.success THEN MimeNone
    ELSE IF res.content_type = NoneV THEN MimeNone
    ELSE Mime_from_str(res.content_type[1])

\* detect_from_content once client.execute(..) has come back
detect_from_content(res) ==
    IF res.failed THEN MimeErr
    ELSE IF ~res.success THEN MimeNone
    ELSE IF res.chunk = NoneV THEN MimeNone
    ELSE infer_get(res.chunk[1])

\* The requests mime_type sends upstream, in order.
mime_type_requests(request, head_res) ==
    IF detect_from_path(request).tag = "Some" THEN << >>
    ELSE IF detect_from_head(head_res).tag = "None"
         THEN << "HEAD", request.method >>
         ELSE << "HEAD" >>

MimeInit ==
    /\ ServerInit
    /\ FacadeInit
    /\ \E request \in ProxiedRequests, head_res \in HeadResponses,
          content_res \in ContentResponses :
           calc = Pending("mime_type",
                          [request |-> request, head |-> head_res,
                           content |-> content_res])

ApplyMimeType ==
    /\ calc.fn = "mime_type"
    /\ calc.result = NoneV
    /\ calc' = [calc EXCEPT
           !.result =
               Some([mime |-> mime_type(calc.input.request,
                                        detect_from_head(calc.input.head),
                                        detect_from_content(calc.input.content)),
                     requests |-> mime_type_requests(calc.input.request,
                                                     calc.input.head)])]
    /\ OnlyCalc

MimeSpec == MimeInit /\ [][ApplyMimeType]_vars

\* ========================================================== file resolver

\* The decimal strings used here with the value str::parse::<u32> gives them.
DecimalStrings ==
    { << "0", 0 >>, << "1", 1 >>, << "2", 2 >>, << "3", 3 >>, << "4", 4 >>,
      << "5", 5 >>, << "11", 11 >>, << "21", 21 >>, << "01", 1 >>,
      << "02", 2 >> }

\* str::parse::<u32>().ok()
parse_u32(text) ==
    IF \E d \in DecimalStrings : d[1] = text
    THEN Some((CHOOSE d \in DecimalStrings : d[1] = text)[2])
    ELSE NoneV

\* struct OwnedElementObject: the elements anitomy parsed from a file name
ElementObject(title, episode, kind, season, year) ==
    [title |-> title, episode |-> episode, kind |-> kind, season |-> season,
     year |-> year]

\* A postfix that is "th" for every season.
season_postfix_th(season) == "th"

\* let postfix = match season { 1 => "st", 2 => "nd", 3 => "rd", _ => "th" }
season_postfix(season) ==
    CASE season = 1 -> "st"
      [] season = 2 -> "nd"
      [] season = 3 -> "rd"
      [] OTHER -> "th"

\* generate_alternative_titles: the title, then for a season that parses
\* as an integer the three seasonal spellings, made with format!.
generate_alternative_titles(obj) ==
    IF obj.title = NoneV THEN << >>
    ELSE LET title == obj.title[1]
             season == IF obj.season = NoneV THEN NoneV
                       ELSE parse_u32(obj.season[1])
         IN  << title >>
             \o (IF season = NoneV THEN << >>
                 ELSE << title \o " " \o ToString(season[1]),
                         title \o " " \o ToString(season[1])
                               \o season_postfix(season[1]) \o " Season",
                         title \o " Season " \o ToString(season[1]) >>)

ParsedTitles == { NoneV, Some("Show"), Some("Other"), Some("A"), Some("B") }

SeasonStrings ==
    { NoneV, Some("x"), Some("") }
        \cup { Some(d[1]) : d \in DecimalStrings }

TitleInit ==
    /\ ServerInit
    /\ FacadeInit
    /\ \E title \in ParsedTitles, season \in SeasonStrings :
           calc = Pending("generate_alternative_titles",
                          ElementObject(title, NoneV, NoneV, season, NoneV))

ApplyAlternativeTitles ==
    /\ calc.fn = "generate_alternative_titles"
    /\ calc.result = NoneV
    /\ calc' = [calc EXCEPT
                    !.result = Some(generate_alternative_titles(calc.input))]
    /\ OnlyCalc

TitleSpec == TitleInit /\ [][ApplyAlternativeTitles]_vars

\* ------------------------------------------------------------ file names

\* anitomy::parse on the file names used here.
anitomy_parse(name) ==
    CASE name = "Show - 01.mkv" ->
             ElementObject(Some("Show"), Some("01"), NoneV, NoneV, NoneV)
      [] name = "Show - 02.mkv" ->
             ElementObject(Some("Show"), Some("02"), NoneV, NoneV, NoneV)
      [] name = "Show S2 - 01.mkv" ->
             ElementObject(Some("Show"), Some("01"), NoneV, Some("2"), NoneV)
      [] name = "Show NCOP 01.mkv" ->
             ElementObject(Some("Show"), Some("01"), Some("NCOP"), NoneV,
                           NoneV)
      [] name = "Other - 01.mkv" ->
             ElementObject(Some("Other"), Some("01"), NoneV, NoneV, NoneV)
      [] OTHER ->
             ElementObject(Some("notes"), NoneV, NoneV, NoneV, NoneV)

FileNames ==
    { "Show - 01.mkv", "Show - 02.mkv", "Show S2 - 01.mkv",
      "Show NCOP 01.mkv", "Other - 01.mkv", "notes.txt" }

\* const NOT_EPISODE_TYPES, compared with kind.to_lowercase()
NOT_EPISODE_TYPES ==
    { "op", "opening", "ncop", "ed", "ending", "nced", "pv", "preview",
      "trailer", "cm" }

to_lowercase(kind) == IF kind = "NCOP" THEN "ncop" ELSE kind

\* A parsed file: (file.index, obj)
ParsedFile(index, obj) == [index |-> index, obj |-> obj]

\* parse_all with each file under its position in the list it was given.
parse_all_by_position(files) ==
    [i \in 1 .. Len(files) |->
         ParsedFile(i - 1, anitomy_parse(files[i].name))]

\* parse_all: every file with a non-empty name, under its own index.
RECURSIVE parse_all(_)
parse_all(files) ==
    IF files = << >> THEN << >>
    ELSE (IF Head(files).name = "" THEN << >>
          ELSE << ParsedFile(Head(files).index,
                             anitomy_parse(Head(files).name)) >>)
         \o parse_all(Tail(files))

\* The filter of parse_episodes: a title, an episode number, and a kind
\* that is not one of NOT_EPISODE_TYPES.
is_episode(obj) ==
    /\ obj.title # NoneV
    /\ obj.episode # NoneV
    /\ (obj.kind = NoneV \/ to_lowercase(obj.kind[1]) \notin NOT_EPISODE_TYPES)

parse_episodes(files) == SelectSeq(parse_all(files), LAMBDA f : is_episode(f.obj))

\* title_key: title, year and "S{season}", each when present.
title_key(obj) ==
    (IF obj.title = NoneV THEN "" ELSE obj.title[1])
        \o (IF obj.year = NoneV THEN "" ELSE obj.year[1])
        \o (IF obj.season = NoneV THEN "" ELSE "S" \o obj.season[1])

\* ------------------------------------------------------ title confirmation

\* The largest page number: search takes page: Option<u16>.
PageMax == 65535

\* An extension as the resolver sees it: the queries whose results hold the
\* series and the page they hold it on, the last page of every result list,
\* and the queries whose search fails.
Extension(known, hit_page, last_page, failing) ==
    [known |-> known, hit_page |-> hit_page, last_page |-> last_page,
     failing |-> failing]

\* extension.search(query, Some(page_number), vec![]): a failure, or a page
\* with or without an item whose id is series_id, and has_next_page.
search(ext, query, page_number) ==
    [failed |-> query \in ext.failing,
     has_id |-> query \in ext.known /\ page_number = ext.hit_page,
     has_next_page |-> page_number < ext.last_page]

\* The builds of the crate: with overflow checks (RangeFrom::next panics
\* when the step after the page it is about to yield overflows) and
\* without (the page after PageMax is 0).
OverflowBuilds == { "checked", "wrapping" }

PagedExtensions ==
    { Extension(known, hit_page, last_page, failing) :
          known \in { {}, { "Show" } }, hit_page \in { 1, 2 },
          last_page \in { 1, 2, 3, PageMax + 2 },
          failing \in { {}, { "Show" } } }

\* The loop of search_all_pages before its first iteration: the range 1..
\* about to yield 1, no page requested yet.
PageInit ==
    /\ ServerInit
    /\ FacadeInit
    /\ \E ext \in PagedExtensions, build \in OverflowBuilds :
           calc = [fn |-> "search_all_pages",
                   input |-> [ext |-> ext, query |-> "Show", build |-> build],
                   start |-> 1, requested |-> NoneV, result |-> NoneV]

\* One iteration of for page_number in 1.. { .. }: the range yields its
\* start and steps it, the page is requested, and the loop returns on a
\* failure, on the series, or on has_next_page = false.
search_page ==
    /\ calc.fn = "search_all_pages"
    /\ calc.result = NoneV
    /\ IF calc.input.build = "checked" /\ calc.start = PageMax
       THEN calc' = [calc EXCEPT !.result = Some("panic")]
       ELSE LET res == search(calc.input.ext, calc.input.query, calc.start)
            IN  calc' = [calc EXCEPT
                    !.start = (calc.start + 1) % (PageMax + 1),
                    !.requested = Some(calc.start),
                    !.result =
                        IF res.failed THEN Some("error")
                        ELSE IF res.has_id THEN Some("confirmed")
                        ELSE IF ~res.has_next_page THEN Some("not confirmed")
                        ELSE NoneV]
    /\ OnlyCalc

PageSpec == PageInit /\ [][search_page]_vars

\* ------------------------------------------------------------ find_episode

\* anyhow::Result<Option<usize>>: Err, Ok(None) or Ok(Some(index))
ResolverErr == [failed |-> TRUE, value |-> NoneV]

ResolverOk(value) == [failed |-> FALSE, value |-> value]

\* search_all_pages from page_number on, for an extension whose result
\* lists end within the page range: "error", "confirmed" or "not confirmed".
RECURSIVE search_all_pages(_, _, _)
search_all_pages(ext, query, page_number) ==
    LET res == search(ext, query, page_number)
    IN  IF res.failed THEN "error"
        ELSE IF res.has_id THEN "confirmed"
        ELSE IF ~res.has_next_page THEN "not confirmed"
        ELSE search_all_pages(ext, query, page_number + 1)

\* find_series_by_title over the candidates left: the first search that
\* fails or confirms decides.
RECURSIVE find_series_among(_, _)
find_series_among(ext, titles) ==
    IF titles = << >> THEN "not confirmed"
    ELSE LET found == search_all_pages(ext, Head(titles), 1)
         IN  IF found = "not confirmed"
             THEN find_series_among(ext, Tail(titles))
             ELSE found

find_series_by_title(ext, obj) ==
    find_series_among(ext, generate_alternative_titles(obj))

\* The first file of a group whose episode string parses to the number.
EpisodeIn(files, episode_number) ==
    LET matching == SelectSeq(files,
                        LAMBDA f : parse_u32(f.obj.episode[1])
                                       = Some(episode_number))
    IN  IF matching = << >> THEN NoneV ELSE Some(Head(matching).index)

\* A group searched without asking the extension about its title.
find_episode_in_group_unconfirmed(ext, files, episode_number) ==
    ResolverOk(EpisodeIn(files, episode_number))

\* find_episode_in_group: the representative is files.first()
find_episode_in_group(ext, files, episode_number) ==
    LET confirmed == find_series_by_title(ext, Head(files).obj)
    IN  IF confirmed = "error" THEN ResolverErr
        ELSE IF confirmed = "not confirmed" THEN ResolverOk(NoneV)
        ELSE ResolverOk(EpisodeIn(files, episode_number))

\* The group of a title key: its parsed files in the order of the listing.
GroupOf(parsed, key) == SelectSeq(parsed, LAMBDA f : title_key(f.obj) = key)

\* The loop of find_episode over the groups in the order the HashMap
\* yields them.
RECURSIVE find_episode_in_groups(_, _, _, _)
find_episode_in_groups(parsed, ext, episode_number, order) ==
    IF order = << >> THEN ResolverOk(NoneV)
    ELSE LET found == find_episode_in_group(ext, GroupOf(parsed, Head(order)),
                                            episode_number)
         IN  IF found.failed \/ found.value # NoneV THEN found
             ELSE find_episode_in_groups(parsed, ext, episode_number,
                                         Tail(order))

\* The orders a HashMap may yield the groups of these files in.
GroupOrders(files) ==
    LET parsed == parse_episodes(files)
        keys == { title_key(parsed[i].obj) : i \in 1 .. Len(parsed) }
    IN  { order \in [1 .. Cardinality(keys) -> keys] :
              \A i, j \in 1 .. Cardinality(keys) :
                  i # j => order[i] # order[j] }

\* TorrentFileResolver::find_episode for Vec<TorrentFile>
TorrentFileResolver_find_episode(files, ext, episode_number, order) ==
    find_episode_in_groups(parse_episodes(files), ext, episode_number, order)

\* ---------------------------------------------------- handle_torrent_source

\* mime_guess::from_path(path).first() has type video
is_video(name) == name # "notes.txt"

\* torrent_backend.list_files: the files of the torrent with their indices.
list_files(names) == [i \in 1 .. Len(names) |-> TorrentFile(i - 1, names[i])]

\* handle_torrent_source after list_files: the video files, the episode
\* found among them, and the file_indices given to register_torrent.
handle_torrent_source(names, ext, episode_number, order) ==
    LET video_files == SelectSeq(list_files(names),
                                 LAMBDA f : is_video(f.name))
        found == TorrentFileResolver_find_episode(video_files, ext,
                                                  episode_number, order)
    IN  [found |-> found,
         file_indices |-> IF found.failed \/ found.value = NoneV THEN NoneV
                          ELSE Some(<< found.value[1] >>)]

MaxFiles == 3

\* The listings of a torrent: up to MaxFiles distinct file names.
Listings ==
    { names \in UNION { [1 .. n -> FileNames] : n \in 1 .. MaxFiles } :
          \A i, j \in 1 .. Len(names) : i # j => names[i] # names[j] }

ResolverExtensions ==
    { Extension(known, hit_page, 2, failing) :
          known \in { {}, { "Show" }, { "Other" }, { "Show 2nd Season" },
                      { "Show", "Other" } },
          hit_page \in { 1, 2 },
          failing \in { {}, { "Other" } } }

EpisodeNumbers == { 1, 2 }

ResolverInit ==
    /\ ServerInit
    /\ FacadeInit
    /\ \E names \in Listings, ext \in ResolverExtensions,
          episode_number \in EpisodeNumbers :
           calc = Pending("handle_torrent_source",
                          [names |-> names, ext |-> ext,
                           episode_number |-> episode_number])

ApplyHandleTorrentSource ==
    /\ calc.fn = "handle_torrent_source"
    /\ calc.result = NoneV
    /\ \E order \in GroupOrders(SelectSeq(list_files(calc.input.names),
                                          LAMBDA f : is_video(f.name))) :
           calc' = [calc EXCEPT
               !.result = Some(handle_torrent_source(
                                   calc.input.names, calc.input.ext,
                                   calc.input.episode_number, order))]
    /\ OnlyCalc

ResolverSpec == ResolverInit /\ [][ApplyHandleTorrentSource]_vars

\* ================================================================ facade

\* What a step of the facade that calls nothing of the proxy leaves as it
\* is there.
ProxyIdle == UNCHANGED << server, backend, pc, local >>

\* anyhow::Result<T> of a facade call that registered nothing.
FacadeOk == Result("Nero", 0, "", NoUrl, << >>, 0)

FacadeErr(error) == Result("Nero", 0, error, NoUrl, << >>, 0)

\* ------------------------------------------------------- load_extension

\* The files load_extension is given: whether std::fs::read succeeds, the
\* nero:extension package version decoded from the bytes if any, and whether
\* the component links.
ExtensionFile(readable, version, linkable) ==
    [readable |-> readable, version |-> version, linkable |-> linkable]

ExtensionFiles ==
    [a |-> ExtensionFile(TRUE, Some(MIN_VER), TRUE),
     b |-> ExtensionFile(TRUE, Some(Version(0, 1, 0, << >>, << >>)), TRUE),
     old |-> ExtensionFile(TRUE, Some(Version(0, 0, 9, << >>, << >>)), TRUE),
     noversion |-> ExtensionFile(TRUE, NoneV, TRUE),
     missing |-> ExtensionFile(FALSE, NoneV, FALSE),
     broken |-> ExtensionFile(TRUE, Some(MIN_VER), FALSE)]

FilePaths == DOMAIN ExtensionFiles

\* struct WasmExtension { extension_pre, metadata }
WasmExtension(extension_pre, metadata) ==
    [extension_pre |-> extension_pre, metadata |-> metadata]

\* WasmHost::load_extension_async
load_extension_async(path) ==
    LET file == ExtensionFiles[path]
    IN  IF ~file.readable
        THEN [ok |-> FALSE, error |-> "No such file or directory",
              extension |-> NoneV]
        ELSE IF file.version = NoneV
        THEN [ok |-> FALSE,
              error |-> "wasm does not contain a 'nero:extension' package with a version",
              extension |-> NoneV]
        ELSE LET made == instantiate_async(file.version[1], file.linkable)
             IN  IF ~made.ok
                 THEN [ok |-> FALSE, error |-> made.error, extension |-> NoneV]
                 ELSE [ok |-> TRUE, error |-> "",
                       extension |->
                           Some(WasmExtension(made.extension_pre, path))]

\* The call returns: its locals go, its read guard (if any) is dropped.
FacadeDone(c) ==
    /\ fpc' = [fpc EXCEPT ![c] = "idle"]
    /\ fl' = [fl EXCEPT ![c] = NoFacadeLocal]
    /\ extension_readers' = extension_readers \ {c}

\* The same, for a call that returns without a call to the proxy.
FacadeFinish(c, result) ==
    /\ out' = result
    /\ FacadeDone(c)

\* load_extension that empties the slot before loading.
load_extension_take_first(c, path) ==
    LET loaded == load_extension_async(path)
    IN  /\ fpc[c] = "idle"
        /\ extension_readers = {}
        /\ extension' = NoneV
        /\ IF loaded.ok
           THEN /\ fpc' = [fpc EXCEPT ![c] = "replace"]
                /\ fl' = [fl EXCEPT
                       ![c] = [NoFacadeLocal EXCEPT !.op = "load_extension",
                                                    !.ext = loaded.extension]]
                /\ UNCHANGED out
           ELSE /\ out' = FacadeErr(loaded.error)
                /\ UNCHANGED << fpc, fl >>
        /\ UNCHANGED << extension_readers, stores, calc >>
        /\ ProxyIdle

\* let extension = self.host.load_extension_async(file_path).await?;
load_extension(c, path) ==
    LET loaded == load_extension_async(path)
    IN  /\ fpc[c] = "idle"
        /\ IF loaded.ok
           THEN /\ fpc' = [fpc EXCEPT ![c] = "replace"]
                /\ fl' = [fl EXCEPT
                       ![c] = [NoFacadeLocal EXCEPT !.op = "load_extension",
                                                    !.ext = loaded.extension]]
                /\ UNCHANGED out
           ELSE /\ out' = FacadeErr(loaded.error)
                /\ UNCHANGED << fpc, fl >>
        /\ UNCHANGED << extension, extension_readers, stores, calc >>
        /\ ProxyIdle

\* The replacement made while facade calls still hold their read guards.
load_replace_no_wait(c) ==
    /\ fpc[c] = "replace"
    /\ extension' = fl[c].ext
    /\ FacadeFinish(c, FacadeOk)
    /\ UNCHANGED << stores, calc >>
    /\ ProxyIdle

\* self.extension.write().await.replace(extension); Ok(()).  The write
\* guard is granted once no read guard is held; a read guard may still be
\* taken at any time before that.
load_replace(c) ==
    /\ fpc[c] = "replace"
    /\ extension_readers = {}
    /\ extension' = fl[c].ext
    /\ FacadeFinish(c, FacadeOk)
    /\ UNCHANGED << stores, calc >>
    /\ ProxyIdle

\* ---------------------------------------------------------- facade calls

FacadeOps == { "get_filters", "search", "get_series_info",
               "get_series_episodes", "get_series_videos" }

\* A store that is the one a running call already has.
FreshStore_first ==
    CHOOSE id \in 1 .. NumClients : \A other \in 1 .. NumClients : id <= other

\* Store::new: a store no other call has.
FreshStore == CHOOSE id \in 1 .. NumClients : id \notin DOMAIN stores

\* WasmState::default(): nothing written yet.
DefaultWasmState == {}

WithoutStore(id) == [i \in DOMAIN stores \ {id} |-> stores[i]]

\* let guard = self.extension.read().await;
\* guard.as_ref().ok_or(anyhow!("extension not loaded"))?  and, in the
\* extension's method,
\* let mut store = Store::new(self.extension_pre.engine(), WasmState::default());
call_start(c, op) ==
    /\ fpc[c] = "idle"
    /\ IF extension = NoneV
       THEN /\ out' = FacadeErr("extension not loaded")
            /\ UNCHANGED << fpc, fl, extension_readers, stores >>
       ELSE /\ extension_readers' = extension_readers \cup {c}
            /\ stores' = (FreshStore :> DefaultWasmState) @@ stores
            /\ fl' = [fl EXCEPT ![c] = [NoFacadeLocal EXCEPT
                                           !.op = op,
                                           !.ext = extension,
                                           !.store = FreshStore]]
            /\ fpc' = [fpc EXCEPT ![c] = "instantiate"]
            /\ UNCHANGED out
    /\ UNCHANGED << extension, calc >>
    /\ ProxyIdle

\* self.extension_pre.instantiate_async(&mut store).await? and the start of
\* the guest operation: the guest sees what its store holds and writes its
\* own state there.
guest_run(c, ok) ==
    /\ fpc[c] = "instantiate"
    /\ fl[c].store \in DOMAIN stores
    /\ IF ok
       THEN /\ fl' = [fl EXCEPT ![c].seen = stores[fl[c].store]]
            /\ stores' = [stores EXCEPT ![fl[c].store] = @ \cup {c}]
            /\ fpc' = [fpc EXCEPT ![c] = "guest"]
            /\ UNCHANGED << extension_readers, out >>
       ELSE /\ stores' = WithoutStore(fl[c].store)
            /\ FacadeFinish(c, FacadeErr("instantiation error"))
    /\ UNCHANGED << extension, calc >>
    /\ ProxyIdle

\* enum MediaResource { HttpRequest(request), MagnetUri(uri) }
MediaResourceHttp(request) == [tag |-> "HttpRequest", request |-> Some(request),
                               uri |-> ""]

MediaResourceMagnet(uri) == [tag |-> "MagnetUri", request |-> NoneV,
                             uri |-> uri]

PosterRequest == HttpRequest("https://ex/p", Referer)

TorrentFileRequest == HttpRequest("https://ex/t.torrent", Referer)

\* poster_resource / thumbnail_resource: Option<MediaResource>
PosterResources ==
    { NoneV, Some(MediaResourceHttp(PosterRequest)),
      Some(MediaResourceMagnet(Magnet)) }

\* Video::resource: MediaResource
VideoResources ==
    { Some(MediaResourceHttp(VideoFile)),
      Some(MediaResourceHttp(TorrentFileRequest)),
      Some(MediaResourceMagnet(Magnet)) }

\* The media resource carried by what a guest operation returns.
GuestResources(op) ==
    IF op = "get_series_videos" THEN VideoResources
    ELSE IF op = "get_filters" THEN { NoneV }
    ELSE PosterResources

\* The guest operation returns and the store is dropped with it.
guest_return(c, ok, resource) ==
    /\ fpc[c] = "guest"
    /\ resource \in GuestResources(fl[c].op)
    /\ stores' = WithoutStore(fl[c].store)
    /\ IF ~ok
       THEN FacadeFinish(c, FacadeErr("guest error"))
       ELSE IF fl[c].op = "get_filters"
       THEN FacadeFinish(c, FacadeOk)
       ELSE /\ fpc' = [fpc EXCEPT ![c] = "convert"]
            /\ fl' = [fl EXCEPT ![c].store = 0, ![c].seen = {},
                                 ![c].resource = resource]
            /\ UNCHANGED << extension_readers, out >>
    /\ UNCHANGED << extension, calc >>
    /\ ProxyIdle

\* Series / Episode conversion: the poster or thumbnail of an item.
convert_image(c, head, content) ==
    /\ fpc[c] = "convert"
    /\ fl[c].op \in { "search", "get_series_info", "get_series_episodes" }
    /\ LET resource == fl[c].resource IN
       IF resource = NoneV
       THEN /\ out' = FacadeOk
            /\ ProxyIdle
       ELSE IF resource[1].tag = "MagnetUri"
       THEN /\ out' = FacadeErr("Magnet URIs are not supported for images")
            /\ ProxyIdle
       ELSE register_image_request(resource[1].request[1], head, content)
    /\ FacadeDone(c)
    /\ UNCHANGED << extension, stores, calc >>

\* Err(e) if e.to_string().contains("torrent"), over the messages of
\* register_video_request; those of the network tiers are taken not to
\* name a torrent.
contains_torrent(error) ==
    error = "Torrent file. Use register_torrent() instead."

\* Video::from_extension_video on MediaResource::HttpRequest
video_http(c, head, content) ==
    /\ fpc[c] = "convert"
    /\ fl[c].op = "get_series_videos"
    /\ fl[c].resource[1].tag = "HttpRequest"
    /\ register_video_request(fl[c].resource[1].request[1], head, content)
    /\ IF out'.error # "" /\ contains_torrent(out'.error)
       THEN /\ fpc' = [fpc EXCEPT ![c] = "torrent"]
            /\ fl' = [fl EXCEPT ![c].source =
                          Some(TorrentSourceHttp(fl[c].resource[1].request[1]))]
            /\ UNCHANGED extension_readers
       ELSE FacadeDone(c)
    /\ UNCHANGED << extension, stores, calc >>

\* Video::from_extension_video on MediaResource::MagnetUri
video_magnet(c) ==
    /\ fpc[c] = "convert"
    /\ fl[c].op = "get_series_videos"
    /\ fl[c].resource[1].tag = "MagnetUri"
    /\ fpc' = [fpc EXCEPT ![c] = "torrent"]
    /\ fl' = [fl EXCEPT ![c].source =
                  Some(TorrentSourceMagnet(fl[c].resource[1].uri))]
    /\ UNCHANGED << extension, extension_readers, stores, calc, out >>
    /\ ProxyIdle

\* handle_torrent_source: processor.torrent_backend() and list_files
torrent_list_files(c, ok) ==
    /\ fpc[c] = "torrent"
    /\ IF ~torrent_backend
       THEN FacadeFinish(c, FacadeErr("torrent support is not enabled."))
       ELSE IF ~ok
       THEN FacadeFinish(c, FacadeErr("list_files error"))
       ELSE /\ fpc' = [fpc EXCEPT ![c] = "resolve"]
            /\ UNCHANGED << fl, extension_readers, out >>
    /\ UNCHANGED << extension, stores, calc >>
    /\ ProxyIdle

\* What find_episode may answer for the video files of a source: an error
\* of the extension's search (-2), no file (-1), or the index of one.
ResolverOutcomes(source) ==
    { -2, -1 } \cup (0 .. Len(TorrentFilesOf(source)) - 1)

\* A load_extension waits in the queue of the extension lock for its write
\* guard.
WriterQueued == \E d \in Clients : fpc[d] = "replace"

\* find_episode whose searches take the extension's read guard again,
\* behind whatever waits in the queue of the lock.
find_episode_reacquire(c, target_index) ==
    /\ fpc[c] = "resolve"
    /\ ~WriterQueued
    /\ target_index \in ResolverOutcomes(fl[c].source[1])
    /\ IF target_index = -2
       THEN /\ out' = FacadeErr("guest error")
            /\ ProxyIdle
       ELSE IF target_index = -1
       THEN /\ out' = FacadeErr("Episode not found")
            /\ ProxyIdle
       ELSE register_torrent(fl[c].source[1], << target_index >>)
    /\ FacadeDone(c)
    /\ UNCHANGED << extension, stores, calc >>

\* find_episode(..).await?.ok_or("Episode not found")? and
\* processor.register_torrent(torrent_source, vec![target_index])
find_episode(c, target_index) ==
    /\ fpc[c] = "resolve"
    /\ target_index \in ResolverOutcomes(fl[c].source[1])
    /\ IF target_index = -2
       THEN /\ out' = FacadeErr("guest error")
            /\ ProxyIdle
       ELSE IF target_index = -1
       THEN /\ out' = FacadeErr("Episode not found")
            /\ ProxyIdle
       ELSE register_torrent(fl[c].source[1], << target_index >>)
    /\ FacadeDone(c)
    /\ UNCHANGED << extension, stores, calc >>

\* ------------------------------------------------- facade specification

LoadExtension(c) ==
    \/ \E path \in FilePaths : load_extension(c, path)
    \/ load_replace(c)

GuestCall(c) ==
    \/ \E op \in FacadeOps : call_start(c, op)
    \/ \E ok \in BOOLEAN : guest_run(c, ok)
    \/ \E ok \in BOOLEAN :
           \E resource \in PosterResources \cup VideoResources :
               guest_return(c, ok, resource)

\* The outcomes of the two network tiers for the resource being converted.
ConvertTiers(c) ==
    IF fl[c].resource = NoneV \/ fl[c].resource[1].tag = "MagnetUri"
    THEN { << MimeNone, MimeNone >> }
    ELSE NetworkTiers(fl[c].resource[1].request[1])

Convert(c) ==
    \/ \E net \in ConvertTiers(c) : convert_image(c, net[1], net[2])
    \/ video_http(c, MimeNone, MimeNone)
    \/ video_magnet(c)
    \/ \E ok \in BOOLEAN : torrent_list_files(c, ok)
    \/ \E target_index \in -2 .. 1 : find_episode(c, target_index)

\* The facade with its calls made one after another.
FacadeOneAtATime(c) == \A d \in Clients \ {c} : fpc[d] = "idle"

FacadeNext ==
    \/ \E c \in Clients : FacadeOneAtATime(c) /\ LoadExtension(c)
    \/ \E c \in Clients : FacadeOneAtATime(c) /\ GuestCall(c)
    \/ \E c \in Clients : FacadeOneAtATime(c) /\ Convert(c)
    \/ set_torrent_backend /\ ProxyOnly
    \/ remove_torrent_backend /\ ProxyOnly

FacadeSpec == Init /\ [][FacadeNext]_vars

\* The extension slot and the guest under any interleaving of the calls;
\* the items converted carry no poster and the videos are magnet links.
SlotNext ==
    \/ \E c \in Clients : \E path \in { "a", "b", "old" } :
           load_extension(c, path)
    \/ \E c \in Clients : load_replace(c)
    \/ \E c \in Clients : \E op \in FacadeOps : call_start(c, op)
    \/ \E c \in Clients : \E ok \in BOOLEAN : guest_run(c, ok)
    \/ \E c \in Clients : \E ok \in BOOLEAN :
           \E resource \in { NoneV, Some(MediaResourceMagnet(Magnet)) } :
               guest_return(c, ok, resource)
    \/ \E c \in Clients : convert_image(c, MimeNone, MimeNone)
    \/ \E c \in Clients : video_magnet(c)
    \/ \E c \in Clients : torrent_list_files(c, TRUE)

SlotSpec == Init /\ [][SlotNext]_vars

\* get_series_videos on magnet links next to load_extension, with the
\* extension lock as tokio's RwLock grants it: first in, first out, so no
\* read guard is granted while a write guard is waited for.
LockNext ==
    \/ \E c \in Clients : load_extension(c, "a")
    \/ \E c \in Clients : load_replace(c)
    \/ \E c \in Clients : ~WriterQueued /\ call_start(c, "get_series_videos")
    \/ \E c \in Clients : \E ok \in BOOLEAN : guest_run(c, ok)
    \/ \E c \in Clients : \E ok \in BOOLEAN :
           guest_return(c, ok, Some(MediaResourceMagnet(Magnet)))
    \/ \E c \in Clients : video_magnet(c)
    \/ \E c \in Clients : \E ok \in BOOLEAN : torrent_list_files(c, ok)
    \/ \E c \in Clients : \E target_index \in -2 .. 0 :
           find_episode(c, target_index)
    \/ set_torrent_backend /\ ProxyOnly

\* The steps of a call that is under way, and the grant of the write guard.
LockStep(c) ==
    \/ load_replace(c)
    \/ \E ok \in BOOLEAN : guest_run(c, ok)
    \/ \E ok \in BOOLEAN :
           guest_return(c, ok, Some(MediaResourceMagnet(Magnet)))
    \/ video_magnet(c)
    \/ \E ok \in BOOLEAN : torrent_list_files(c, ok)
    \/ \E target_index \in -2 .. 0 : find_episode(c, target_index)

\* Every call under way goes on until it returns, and a write guard that
\* can be granted is granted.
LockSpec ==
    /\ Init
    /\ [][LockNext]_vars
    /\ \A c \in Clients : WF_vars(LockStep(c))

\* ================================================================= claims

AllIdle == \A c \in Clients : pc[c] = "idle"

C2_OneSurvivor ==
    AllIdle =>
        /\ Cardinality(Active) <= 1
        /\ \A id \in Active : current_video = Some(CurrentVideoTorrent(id))

\* C3: a video URL is single-use.  register_video_request stores Http(req)
\* under the fingerprint h its URL carries; GET /video/{h} answers 404
\* exactly when h is not cached and removes the entry it finds; and a key
\* that is absent becomes present again only by a registration under it.
C3_VideoSingleUse ==
    [][/\ \A r \in ProxiedRequests : \A net \in NetworkTiers(r) :
              (out'.error = "" /\ register_video_request(r, net[1], net[2])) =>
                  /\ out'.url = ProxyUrl("video", get_request_hash(r))
                  /\ CacheHas(video_requests', get_request_hash(r))
                  /\ video_requests'[get_request_hash(r)] = RequestHttp(r)
       /\ \A c \in Clients, h \in Keys, upstream \in UpstreamOutcomes :
              handle_video_request(c, h, upstream) =>
                  /\ out'.status = 404 <=> ~CacheHas(video_requests, h)
                  /\ ~CacheHas(video_requests', h)
                  /\ \A k \in Keys \ {h} :
                         CacheHas(video_requests', k)
                             <=> CacheHas(video_requests, k)
       /\ \A h \in Keys :
              (~CacheHas(video_requests, h) /\ CacheHas(video_requests', h)) =>
                  /\ out'.op = "register_video_request"
                  /\ out'.url = ProxyUrl("video", h)]_vars

\* C3 witness: a GET /video/{h} has just been served from the cache, and the
\* entry it found is gone.
C3_Witness ==
    /\ out.op = "GET /video"
    /\ out.status = 200
    /\ video_requests = EmptyCache

\* C4: an image URL is reusable.  register_image_request stores the request
\* under the fingerprint h its URL carries; GET /image/{h} answers 404
\* exactly when h is not cached and leaves the image cache as it was; and an
\* entry leaves the image cache only by eviction.
C4_ImageReusable ==
    [][/\ \A r \in ProxiedRequests : \A net \in NetworkTiers(r) :
              (out'.error = "" /\ register_image_request(r, net[1], net[2])) =>
                  /\ out'.url = ProxyUrl("image", get_request_hash(r))
                  /\ CacheHas(image_requests', get_request_hash(r))
                  /\ image_requests'[get_request_hash(r)] = r
       /\ \A c \in Clients, h \in Keys, upstream \in UpstreamOutcomes :
              handle_image_request(c, h, upstream) =>
                  /\ out'.status = 404 <=> ~CacheHas(image_requests, h)
                  /\ image_requests' = image_requests
       /\ \A h \in Keys :
              (CacheHas(image_requests, h) /\ ~CacheHas(image_requests', h)) =>
                  evict_image(h)]_vars

\* C4 witness: a GET /image/{h} has just been served and the entry is still
\* cached.
C4_Witness ==
    /\ out.op = "GET /image"
    /\ out.status = 200
    /\ image_requests # EmptyCache

\* What GET /torrent/{h} leaves alone when it fails before any backend call.
NoTorrentCall == UNCHANGED << added, cancelled, current_video >>

\* C5 as claimed: GET /torrent/{h} on an Http entry fails with
\* InvalidRequestType (400), on an unknown key with NotFound (404), and in
\* both cases calls neither cancel_torrent nor add_torrent and leaves the
\* current-video slot unchanged.
C5_Original ==
    [][\A c \in Clients :
          /\ \A h \in Keys :
                 (torrent_remove(c, h) /\ ~CacheHas(video_requests, h)) =>
                     /\ out' = NotFound("GET /torrent")
                     /\ NoTorrentCall
          /\ (pc[c] = "backend" /\ pc'[c] # "backend"
                  /\ local[c].entry[1].tag = "Http") =>
                 /\ out' = InvalidRequestType("GET /torrent")
                 /\ NoTorrentCall]_vars

\* C5 amended: on an Http entry the request fails with InvalidRequestType
\* (400) when a torrent backend is configured and with
\* TorrentSupportDisabled (400) when none is; on an unknown key it fails with
\* NotFound (404); no such request calls cancel_torrent or add_torrent or
\* changes the current-video slot.
C5_InvalidRequestType ==
    [][\A c \in Clients :
          /\ \A h \in Keys :
                 torrent_remove(c, h) =>
                     /\ ~CacheHas(video_requests, h) =>
                            /\ out' = NotFound("GET /torrent")
                            /\ out'.status = 404
                            /\ pc'[c] = "idle"
                     /\ CacheHas(video_requests, h) =>
                            /\ pc'[c] = "backend"
                            /\ out' = out
                     /\ NoTorrentCall
          /\ (pc[c] = "backend" /\ pc'[c] # "backend"
                  /\ local[c].entry[1].tag = "Http") =>
                 /\ pc'[c] = "idle"
                 /\ out' = IF torrent_backend
                           THEN InvalidRequestType("GET /torrent")
                           ELSE TorrentSupportDisabled("GET /torrent")
                 /\ out'.status = 400
                 /\ NoTorrentCall]_vars

\* C5 witness: an Http entry was asked for on the torrent route with a
\* backend configured, and the answer is InvalidRequestType.
C5_Witness ==
    /\ out = InvalidRequestType("GET /torrent")
    /\ torrent_backend
    /\ AllIdle

\* C6: with no torrent backend configured, GET /torrent/{h} for a registered
\* key and GET /torrent/{id}/stream/{index} fail with TorrentSupportDisabled
\* (400) and leave the current-video slot unchanged.
C6_TorrentSupportDisabled ==
    [][\A c \in Clients :
          /\ (pc[c] = "backend" /\ pc'[c] # "backend" /\ ~torrent_backend) =>
                 /\ out' = TorrentSupportDisabled("GET /torrent")
                 /\ out'.status = 400
                 /\ pc'[c] = "idle"
                 /\ NoTorrentCall
          /\ (pc[c] = "idle" /\ ~torrent_backend
                  /\ \E id \in 0 .. added : stream_start(c, id, 0)) =>
                 /\ out' = TorrentSupportDisabled("GET /torrent/stream")
                 /\ out'.status = 400
                 /\ pc'[c] = "idle"
                 /\ NoTorrentCall]_vars

\* C6 witness: a stream request has just been refused for want of a backend
\* while a session is current.
C6_Witness ==
    /\ out = TorrentSupportDisabled("GET /torrent/stream")
    /\ ~torrent_backend
    /\ IsSome(current_video)

\* The playlist line pair the route must emit for one included file.
PlaylistEntry(id, file) ==
    [extinf |-> file.name,
     url |-> Url("http", Addr,
                 << "torrent", ToString(id), "stream", ToString(file.index) >>)]

\* C7: register_torrent(source, indices) stores Torrent{source, indices}
\* under the source fingerprint and returns /torrent/{h}; GET /torrent/{h}
\* then calls add_torrent with exactly that source and those indices, and
\* its playlist has one entry per file the backend reported as included,
\* each pointing at /torrent/{id}/stream/{index} with the id add_torrent
\* returned and that file's index.
C7_TorrentPlaylist ==
    [][/\ \A src \in TorrentSources, file_indices \in IndexLists :
              (out'.op = "register_torrent"
                   /\ register_torrent(src, file_indices)) =>
                  LET h == get_torrent_source_hash(src)
                  IN  /\ out'.error = ""
                      /\ out'.url = Url("http", Addr, << "torrent" >> \o h)
                      /\ CacheHas(video_requests', h)
                      /\ video_requests'[h] = RequestTorrent(src, file_indices)
       /\ \A c \in Clients :
              /\ \A h \in Keys :
                     (torrent_remove(c, h) /\ CacheHas(video_requests, h)) =>
                         /\ local'[c].key = h
                         /\ local'[c].entry = Some(video_requests[h])
              /\ (pc[c] = "add" /\ pc'[c] = "store") =>
                     LET e == local[c].entry[1]
                         t == local'[c].torrent[1]
                     IN  /\ get_torrent_source_hash(e.source[1]) = local[c].key
                         /\ local'[c].call =
                                Some([source |-> e.source[1],
                                      file_indices |-> e.file_indices])
                         /\ t.id = added'
                         /\ t.id \notin 1 .. added
                         /\ \A i \in 1 .. Len(t.files) :
                                /\ InSeq(t.files[i].index, e.file_indices)
                                /\ t.files[i].name =
                                       TorrentFilesOf(e.source[1])
                                           [t.files[i].index + 1]
                         /\ \A i \in 1 .. Len(e.file_indices) :
                                e.file_indices[i]
                                        < Len(TorrentFilesOf(e.source[1]))
                                    => \E j \in 1 .. Len(t.files) :
                                           t.files[j].index = e.file_indices[i]
              /\ (pc[c] = "store" /\ pc'[c] = "idle") =>
                     LET t == local[c].torrent[1]
                     IN  /\ out'.op = "GET /torrent"
                         /\ out'.status = 200
                         /\ Len(out'.body) = Len(t.files)
                         /\ \A i \in 1 .. Len(t.files) :
                                out'.body[i] = PlaylistEntry(t.id, t.files[i])
      ]_vars

\* C7 witness: the magnet was registered with both files selected and its
\* playlist came back with both, in order, under the session's id.
C7_Witness ==
    /\ out.op = "GET /torrent"
    /\ out.status = 200
    /\ Len(out.body) = 2
    /\ out.body[2].extinf = "e02.mkv"
    /\ \E id \in 1 .. added :
           /\ current_video = Some(CurrentVideoTorrent(id))
           /\ out.body[2].url.path = << "torrent", ToString(id), "stream", "1" >>

Bittorrent == Mime("application", "x-bittorrent")

\* C9: register_image_request on a request with headers whose detected type
\* is application/x-bittorrent fails and inserts nothing in the image cache.
C9_ImageRejectsTorrent ==
    [][\A r \in ProxiedRequests : \A net \in NetworkTiers(r) :
          (/\ mime_type(r, net[1], net[2]) = MimeSome(Bittorrent)
           /\ register_image_request(r, net[1], net[2])) =>
              /\ out'.error # ""
              /\ image_requests' = image_requests]_vars

\* C10: register_video_request on a request with headers stores Http(req)
\* under the request fingerprint and returns /video/{h} for video/*, fails
\* with "Use register_torrent() instead" for application/x-bittorrent, fails
\* as unsupported for any other type, and leaves the video cache unchanged
\* whenever it fails.
C10_VideoDispatch ==
    [][\A r \in ProxiedRequests : \A net \in NetworkTiers(r) :
          register_video_request(r, net[1], net[2]) =>
              LET m == mime_type(r, net[1], net[2])
                  h == get_request_hash(r)
              IN  IF m.tag = "Some" /\ m.mime.type = "video"
                  THEN /\ out'.error = ""
                       /\ out'.url = Url("http", Addr, << "video" >> \o h)
                       /\ CacheHas(video_requests', h)
                       /\ video_requests'[h] = RequestHttp(r)
                  ELSE /\ video_requests' = video_requests
                       /\ IF m = MimeSome(Bittorrent)
                          THEN out'.error
                                   = "Torrent file. Use register_torrent() instead."
                          ELSE IF m.tag = "Some"
                          THEN out'.error = "Unsupported media type"
                          ELSE out'.error # ""]_vars

\* The pre-release tags that rank below "draft": numeric ones, and those
\* earlier in ASCII order.
BelowDraft == { << IdAlpha >>, << NumericId(1) >>, << IdUpperDraft >> }

\* C16: instantiate_async, given a linkable component, picks the 0.1.0-draft
\* binding for every version at or above 0.1.0-draft in semantic-version
\* order and fails with "unsupported extension version" for every version
\* below it.
C16_VersionGating ==
    (calc.fn = "instantiate_async" /\ IsSome(calc.result)) =>
        LET v == calc.input.version
            r == calc.result[1]
            below == /\ v.major = 0
                     /\ \/ v.minor = 0
                        \/ v.minor = 1 /\ v.patch = 0 /\ v.pre \in BelowDraft
        IN  IF below
            THEN ~r.ok /\ r.error = "unsupported extension version"
            ELSE calc.input.linkable =>
                     r.ok /\ r.extension_pre = "V0_1_0_DRAFT"

\* C16 witness: 0.1.0-draft.1 was accepted and 0.1.0-alpha would not be.
C16_Witness ==
    /\ calc.fn = "instantiate_async"
    /\ IsSome(calc.result)
    /\ calc.input.version
           = Version(0, 1, 0, << IdDraft, NumericId(1) >>, << >>)
    /\ calc.result[1].ok
    /\ ~instantiate_async(Version(0, 1, 0, << IdAlpha >>, << >>), TRUE).ok

\* A resource get_series_videos is to take down the torrent path: a magnet
\* link, or an HTTP request with headers whose detected type is
\* application/x-bittorrent.
TorrentResource(resource) ==
    \/ resource[1].tag = "MagnetUri"
    \/ /\ resource[1].tag = "HttpRequest"
       /\ ~headers_is_empty(resource[1].request[1])
       /\ mime_type(resource[1].request[1], MimeNone, MimeNone)
              = MimeSome(Bittorrent)

TorrentSourceOf(resource) ==
    IF resource[1].tag = "MagnetUri"
    THEN TorrentSourceMagnet(resource[1].uri)
    ELSE TorrentSourceHttp(resource[1].request[1])

\* C11: in get_series_videos the conversion of a video whose resource is a
\* magnet link, or an HTTP request with headers detected as
\* application/x-bittorrent, goes on to the torrent path with that source
\* (list_files, the resolver, register_torrent), and a call that comes back
\* from the resolver with a URL comes back with /torrent/{h} for the source.
C11_TorrentSwitch ==
    [][\A c \in Clients :
          /\ ( /\ fpc[c] = "convert"
               /\ fpc'[c] # "convert"
               /\ fl[c].op = "get_series_videos"
               /\ TorrentResource(fl[c].resource) )
             => /\ fpc'[c] = "torrent"
                /\ fl'[c].source = Some(TorrentSourceOf(fl[c].resource))
          /\ ( /\ fpc[c] = "resolve"
               /\ fpc'[c] = "idle"
               /\ out'.error = "" )
             => out'.url = ProxyUrl("torrent",
                                    get_torrent_source_hash(fl[c].source[1]))
      ]_vars


\* C12: a request and the same request with its header entries put in
\* another order, several values under one name included, fold the same
\* sequence of items into the hasher and so have the same fingerprint.
C12_Canonical ==
    (calc.fn = "get_request_hash" /\ IsSome(calc.result)) =>
        calc.result[1][1] = calc.result[1][2]


\* The names given by the tokens of every Connection value of a map.
ConnectionNamed(entries) ==
    UNION { TokenNames(ValuesOf("connection", entries)[i][2]) :
                i \in 1 .. Len(ValuesOf("connection", entries)) }

\* C13: after remove_hop_by_hop_headers the map holds none of the eight
\* hop-by-hop names and no header named by a token of any Connection value
\* of the original map, Connection occurring more than once included.
C13_Stripped ==
    (calc.fn = "remove_hop_by_hop_headers" /\ IsSome(calc.result)) =>
        \A i \in 1 .. Len(calc.result[1]) :
            /\ calc.result[1][i][1] \notin HOP_BY_HOP_HEADERS
            /\ calc.result[1][i][1] \notin ConnectionNamed(calc.input)


\* The TTL a cache was configured with.
ConfiguredTtl(name) ==
    IF name = "image_requests" THEN calc.config.image_ttl
    ELSE calc.config.video_ttl

\* C14: a cache configured with TTL D never gives back, by get or by
\* remove, an entry inserted at t at a time later than t + D, whatever was
\* inserted, read or removed under other keys in between.
C14_CacheTtl ==
    [][\A name \in CacheNames, k \in CacheKeys :
          ( /\ calc.fn = "Cache"
            /\ calc'.now = calc.now
            /\ calc'.got = Got(name, k, TRUE)
            /\ IsSome(ConfiguredTtl(name)) )
          => /\ k \in DOMAIN calc.caches[name].entries
             /\ calc.now <= calc.caches[name].entries[k]
                                + ConfiguredTtl(name)[1]
      ]_vars

\* An entry of the image cache asked for after its TTL, and not given back,
\* while the other key was inserted after it.
C14_Witness ==
    /\ calc.fn = "Cache"
    /\ calc.config.image_ttl = Some(1)
    /\ calc.got = Got("image_requests", 1, FALSE)
    /\ DOMAIN calc.caches["image_requests"].entries = { 1, 2 }
    /\ calc.caches["image_requests"].entries[1] = 0
    /\ calc.caches["image_requests"].entries[2] = 1
    /\ calc.now = 2


\* The request carries Range: bytes=a-b with 0 <= a <= b < L.
InRange(input) ==
    /\ IsSome(input.header)
    /\ input.header[1].unit = "bytes"
    /\ input.header[1].start.kind = "num"
    /\ input.header[1].end.kind = "num"
    /\ input.header[1].start.n <= input.header[1].end.n
    /\ input.header[1].end.n < input.total_len

\* C15: for a file of length L and Range: bytes=a-b with 0 <= a <= b < L the
\* answer is 206 with Content-Range: bytes a-b/L and Content-Length b-a+1,
\* and the body is the b-a+1 bytes of the file from offset a on.
C15_Range ==
    ( /\ calc.fn = "handle_stream_request"
      /\ IsSome(calc.result)
      /\ InRange(calc.input) )
    => LET a == calc.input.header[1].start.n
           b == calc.input.header[1].end.n
           L == calc.input.total_len
           r == calc.result[1]
       IN  /\ ~r.panic
           /\ r.status = 206
           /\ r.content_range = Some(<< "bytes", a, b, L >>)
           /\ r.content_length = b - a + 1
           /\ Len(r.body) = b - a + 1
           /\ \A i \in 1 .. Len(r.body) : r.body[i] = a + i - 1

\* A range of more than one byte ending at the last byte of the file.
C15_Witness ==
    /\ calc.fn = "handle_stream_request"
    /\ IsSome(calc.result)
    /\ InRange(calc.input)
    /\ calc.input.header[1].start.n = 1
    /\ calc.input.header[1].end.n = calc.input.total_len - 1
    /\ calc.input.total_len = Modulus - 1
    /\ calc.result[1].status = 206


\* C17: a call that fails leaves the extension slot as it was: a
\* load_extension that cannot read the file, finds no version or an
\* unsupported one, or cannot instantiate, and a facade call that ends in
\* an error.  The slot changes only in the last step of a load_extension
\* that succeeds, and then holds the extension just loaded.
C17_FailureKeepsSlot ==
    [][/\ out'.error # "" => extension' = extension
       /\ extension' # extension
              => \E c \in Clients :
                     /\ fpc[c] = "replace"
                     /\ fpc'[c] = "idle"
                     /\ extension' = fl[c].ext
                     /\ extension' # NoneV
                     /\ out' = FacadeOk
      ]_vars

\* A load_extension turned down for its version while an extension is
\* loaded.
C17_Witness ==
    /\ extension = Some(WasmExtension("V0_1_0_DRAFT", "a"))
    /\ out = FacadeErr("unsupported extension version")


\* C18: the slot holds one extension at most and a load_extension that
\* succeeds puts the loaded extension in the place of the previous one.  A
\* facade call that takes its read guard is served by the extension in the
\* slot at that moment, and by that extension until it returns: the slot
\* does not change under a call in flight.
C18_OneExtension ==
    [][/\ \A c \in Clients :
              c \in extension_readers'
                  => /\ extension' # NoneV
                     /\ fl'[c].ext = extension'
       /\ \A c \in Clients :
              (c \in extension_readers /\ c \in extension_readers')
                  => fl'[c].ext = fl[c].ext
       /\ \A c \in Clients :
              (fpc[c] = "replace" /\ fpc'[c] = "idle")
                  => extension' = fl[c].ext
      ]_vars

\* A call in flight on one extension while a load_extension that has loaded
\* another waits to replace it.
C18_Witness ==
    \E c, d \in Clients :
        /\ c \in extension_readers
        /\ fpc[c] = "guest"
        /\ fpc[d] = "replace"
        /\ fl[d].ext # extension
        /\ fl[c].ext = extension


\* The calls that have a store: created, and the guest not yet returned.
Running == { c \in Clients : fpc[c] \in { "instantiate", "guest" } }

\* C19: each extension operation runs its guest in a store of its own,
\* created for the call and gone when the call ends: the stores alive are
\* those of the calls in flight, no two calls share one, a guest starts from
\* the default state and finds nothing written by another call, and only
\* its own call writes to its store.
C19_GuestIsolation ==
    /\ DOMAIN stores = { fl[c].store : c \in Running }
    /\ \A c, d \in Running : c # d => fl[c].store # fl[d].store
    /\ \A c \in Running : stores[fl[c].store] \subseteq {c}
    /\ \A c \in Clients : fl[c].seen = DefaultWasmState

\* Two operations running at once on the same extension handle, each
\* having written its guest state.
C19_Witness ==
    \E c, d \in Clients :
        /\ c # d
        /\ fpc[c] = "guest"
        /\ fpc[d] = "guest"
        /\ fl[c].op = "search"
        /\ fl[d].op = "get_series_videos"
        /\ fl[c].ext = fl[d].ext
        /\ stores[fl[c].store] = {c}
        /\ stores[fl[d].store] = {d}


\* C20: the stream handler gives the client no error of the "initializing"
\* or "metadata" stage: on such an error it sleeps and calls the backend
\* again with the same torrent id and file index.  It sleeps on no other
\* outcome, and what it returns is the backend's response or its other
\* error, as soon as the backend gives one.
C20_StreamRetry ==
    [][\A c \in Clients :
          /\ (pc[c] # "sleep" /\ pc'[c] = "sleep")
                 => /\ pc[c] = "stream"
                    /\ contains_not_ready(local'[c].stream[3])
                    /\ local'[c].stream[1] = local[c].stream[1]
                    /\ local'[c].stream[2] = local[c].stream[2]
                    /\ c \in backend_readers'
                    /\ out' = out
          /\ (pc[c] = "sleep" /\ pc'[c] # "sleep")
                 => /\ pc'[c] = "stream"
                    /\ local'[c].stream
                           = << local[c].stream[1], local[c].stream[2] >>
                    /\ out' = out
          /\ (pc[c] = "stream" /\ pc'[c] = "idle")
                 => /\ out'.op = "GET /torrent/stream"
                    /\ \/ out'.status = 200
                       \/ /\ out'.status = 500
                          /\ out'.body = << "error" >>
      ]_vars

\* A handler asleep after the backend said the metadata is not there yet.
C20_Witness ==
    \E c \in Clients :
        /\ pc[c] = "sleep"
        /\ local[c].stream = << 1, 0, "metadata" >>


\* C21: every stream request comes back in the end with a response or an
\* error, also when the backend keeps answering that the torrent is
\* initializing or that its metadata is not there.
C21_StreamReturns ==
    \A c \in Clients : (pc[c] = "stream") ~> (pc[c] = "idle")


\* C22: when cancel_torrent for the previous session comes back with an
\* error, GET /torrent/{h} goes on: it calls add_torrent for the new source
\* and, the backend accepting it, stores the new session as current and
\* answers 200 with the playlist.
C22_CancelBestEffort ==
    [][\A c \in Clients :
          /\ (pc[c] = "cancel" /\ pc'[c] # "cancel")
                 => /\ pc'[c] = "add"
                    /\ local'[c].entry = local[c].entry
                    /\ out' = out
          /\ (pc[c] = "add" /\ pc'[c] # "add" /\ ~local[c].cancel_ok)
                 => \/ /\ pc'[c] = "store"
                       /\ added' = added + 1
                       /\ local'[c].call
                              = Some(AddTorrentCall(local[c].entry[1]))
                       /\ local'[c].torrent[1].id = added'
                    \/ /\ pc'[c] = "idle"
                       /\ added' = added
                       /\ out' = TorrentBackendError("GET /torrent")
          /\ (pc[c] = "store" /\ pc'[c] # "store" /\ ~local[c].cancel_ok)
                 => /\ current_video'
                           = Some(CurrentVideoTorrent(local[c].torrent[1].id))
                    /\ out'.op = "GET /torrent"
                    /\ out'.status = 200
                    /\ out'.body = M3uEntries(local[c].torrent[1].id,
                                              local[c].torrent[1].files)
      ]_vars

\* A request whose cancel of the previous session failed and whose
\* add_torrent went through, about to store the new session.
C22_Witness ==
    \E c \in Clients :
        /\ pc[c] = "store"
        /\ ~local[c].cancel_ok
        /\ local[c].cancel_id \in cancelled
        /\ IsSome(local[c].torrent)


\* C23: the backend's cancel_torrent is called by GET /torrent/{h} alone,
\* at its cancel step, and with the id the handler took out of the
\* current-video slot; registrations, the stream route, set_torrent_backend
\* and remove_torrent_backend cancel nothing.
C23_CancelOnlyOnSwitch ==
    [][/\ cancelled' # cancelled
              => \E c \in Clients :
                     /\ pc[c] = "cancel"
                     /\ pc'[c] # "cancel"
                     /\ cancelled' = cancelled \cup { local[c].cancel_id }
       /\ \A c \in Clients :
              (pc[c] # "cancel" /\ pc'[c] = "cancel")
                  => /\ pc[c] = "take"
                     /\ IsSome(current_video)
                     /\ current_video[1].tag = "Torrent"
                     /\ local'[c].cancel_id = current_video[1].torrent_id
      ]_vars

\* A session cancelled by a switch, the backend removed afterwards and the
\* session added by the switch still active.
C23_Witness ==
    /\ cancelled = { 1 }
    /\ added = 2
    /\ ~torrent_backend
    /\ current_video = Some(CurrentVideoTorrent(2))


\* C24: the backend lock and the current-video lock are held for brief
\* sections only: a handler waiting for cancel_torrent, add_torrent or
\* handle_stream_request, or asleep between two stream attempts, holds
\* neither, so that set_torrent_backend and remove_torrent_backend are never
\* kept waiting by it.
C24_BriefSections ==
    \A c \in Clients :
        pc[c] \in { "cancel", "add", "stream", "sleep" }
            => /\ c \notin backend_readers
               /\ current_writer # c


\* The type a probe's answer carries, if the answer is a success with a
\* type that parses (HEAD) or a chunk that is recognised (content).
HeadType(res) ==
    IF ~res.failed /\ res.success /\ IsSome(res.content_type)
    THEN Mime_from_str(res.content_type[1]) ELSE MimeNone

ContentType(res) ==
    IF ~res.failed /\ res.success /\ IsSome(res.chunk)
    THEN infer_get(res.chunk[1]) ELSE MimeNone

\* C25: the three tiers are tried in order and the first that yields a type
\* wins.  A path extension that maps to a type means no request is sent.
\* When the HEAD probe yields no type (status not 2xx, Content-Type missing
\* or unparseable, or the HEAD request failed) the content sniff is made,
\* and the result is none when all three tiers fail.
C25_Tiers ==
    (calc.fn = "mime_type" /\ IsSome(calc.result)) =>
        LET r == calc.result[1]
            path == detect_from_path(calc.input.request)
            head == HeadType(calc.input.head)
            content == ContentType(calc.input.content)
        IN  IF path.tag = "Some"
            THEN r.mime = path /\ r.requests = << >>
            ELSE IF head.tag = "Some"
            THEN r.mime = head /\ r.requests = << "HEAD" >>
            ELSE /\ r.requests = << "HEAD", "GET" >>
                 /\ r.mime = content

\* The season of an applied generate_alternative_titles as an integer of
\* at least one, and the candidates it returned.
C28Season == parse_u32(calc.input.season[1])[1]

C28Applied ==
    /\ calc.fn = "generate_alternative_titles"
    /\ calc.result # NoneV
    /\ calc.input.title # NoneV

C28Seasonal ==
    /\ C28Applied
    /\ calc.input.season # NoneV
    /\ parse_u32(calc.input.season[1]) # NoneV
    /\ C28Season >= 1

C28Ordinal ==
    IF C28Season = 1 THEN "st"
    ELSE IF C28Season = 2 THEN "nd"
    ELSE IF C28Season = 3 THEN "rd"
    ELSE "th"

\* C28 as stated: for title T and season string S the candidates are T and,
\* when S parses as an integer, "T S", "T S{ordinal}" and "T Season S" in
\* this order; T alone when the season is absent or not an integer.
C28_Candidates ==
    /\ C28Seasonal =>
           calc.result[1] =
               << calc.input.title[1],
                  calc.input.title[1] \o " " \o calc.input.season[1],
                  calc.input.title[1] \o " " \o calc.input.season[1]
                      \o C28Ordinal,
                  calc.input.title[1] \o " Season " \o calc.input.season[1] >>
    /\ (C28Applied /\ (calc.input.season = NoneV
                       \/ parse_u32(calc.input.season[1]) = NoneV)) =>
           calc.result[1] = << calc.input.title[1] >>

\* C28 amended: the seasonal candidates are "T n", "T n{ordinal} Season" and
\* "T Season n" with n the parsed integer written in decimal, after T and in
\* this order; T alone when the season is absent or not an integer.
C28_SeasonalCandidates ==
    /\ C28Seasonal =>
           calc.result[1] =
               << calc.input.title[1],
                  calc.input.title[1] \o " " \o ToString(C28Season),
                  calc.input.title[1] \o " " \o ToString(C28Season)
                      \o C28Ordinal \o " Season",
                  calc.input.title[1] \o " Season " \o ToString(C28Season) >>
    /\ (C28Applied /\ (calc.input.season = NoneV
                       \/ parse_u32(calc.input.season[1]) = NoneV)) =>
           calc.result[1] = << calc.input.title[1] >>

C28_Witness ==
    /\ C28Seasonal
    /\ calc.input.season = Some("02")
    /\ calc.result[1] =
           << "Show", "Show 2", "Show 2nd Season", "Show Season 2" >>

\* The page a step of search_all_pages requests, when it requests one.
C27Requests ==
    /\ calc.fn = "search_all_pages"
    /\ calc'.requested # calc.requested

C27Response == search(calc.input.ext, calc.input.query, calc'.requested[1])

\* C27: title confirmation requests page 1 first and then each next page,
\* stops with "confirmed" at the first page holding the series and with
\* "not confirmed" at the first page without a next page, and ends with one
\* of these for every extension that has such a page, however far.
C27_Paging ==
    [][/\ (calc.fn = "search_all_pages" /\ calc'.result # NoneV) =>
              calc'.result[1] \in { "confirmed", "not confirmed", "error" }
       /\ C27Requests =>
              /\ calc.requested = NoneV => calc'.requested[1] = 1
              /\ calc.requested # NoneV =>
                     calc'.requested[1] = calc.requested[1] + 1
              /\ ~C27Response.failed =>
                     /\ C27Response.has_id =>
                            calc'.result = Some("confirmed")
                     /\ (~C27Response.has_id
                         /\ ~C27Response.has_next_page) =>
                            calc'.result = Some("not confirmed")
                     /\ (~C27Response.has_id
                         /\ C27Response.has_next_page) =>
                            calc'.result = NoneV]_vars

\* The video files an applied handle_torrent_source searched, and the
\* answer of find_episode.
C26Applied == calc.fn = "handle_torrent_source" /\ calc.result # NoneV

C26Files ==
    SelectSeq([i \in 1 .. Len(calc.input.names) |->
                   [index |-> i - 1, name |-> calc.input.names[i],
                    obj |-> anitomy_parse(calc.input.names[i])]],
              LAMBDA f : f.name # "notes.txt")

C26Found == calc.result[1].found

\* The file passed the episode filter.
C26Episode(f) ==
    /\ f.obj.title # NoneV
    /\ f.obj.episode # NoneV
    /\ \/ f.obj.kind = NoneV
       \/ f.obj.kind[1] \notin { "NCOP", "ncop", "OP", "op", "ED", "ed" }

\* The representative of f's group: the first file of the listing that
\* passed the filter and has f's title key.
C26Representative(f) ==
    LET i == CHOOSE i \in 1 .. Len(C26Files) :
                 /\ C26Episode(C26Files[i])
                 /\ title_key(C26Files[i].obj) = title_key(f.obj)
                 /\ \A j \in 1 .. i - 1 :
                        ~(/\ C26Episode(C26Files[j])
                          /\ title_key(C26Files[j].obj) = title_key(f.obj))
    IN  C26Files[i]

\* A search for one of the representative's candidate titles returned,
\* after pages that all had a next page, a page holding the series.
C26Confirmed(f) ==
    LET titles == generate_alternative_titles(C26Representative(f).obj)
    IN  \E t \in 1 .. Len(titles) : \E page \in 1 .. 2 :
            /\ search(calc.input.ext, titles[t], page).has_id
            /\ \A before \in 1 .. page - 1 :
                   search(calc.input.ext, titles[t], before).has_next_page

\* The file is the requested episode of a confirmed group.
C26Target(f) ==
    /\ C26Episode(f)
    /\ parse_u32(f.obj.episode[1]) = Some(calc.input.episode_number)
    /\ C26Confirmed(f)

\* C26: an index find_episode returns is that of a file that passed the
\* episode filter, whose group's representative a search confirmed and whose
\* episode string parses to the requested number; without such a file in a
\* confirmed group a find_episode that returns Ok returns "not found".
C26_ConfirmedGroupOnly ==
    (C26Applied /\ ~C26Found.failed) =>
        /\ C26Found.value # NoneV =>
               \E i \in 1 .. Len(C26Files) :
                   /\ C26Files[i].index = C26Found.value[1]
                   /\ C26Target(C26Files[i])
        /\ (\A i \in 1 .. Len(C26Files) : ~C26Target(C26Files[i])) =>
               C26Found.value = NoneV

\* Episode 1 of "Show" found behind an unconfirmed "Other" group, its title
\* confirmed on the second page.
C26_Witness ==
    /\ C26Applied
    /\ calc.input.names = << "Other - 01.mkv", "Show NCOP 01.mkv",
                             "Show - 01.mkv" >>
    /\ calc.input.ext = Extension({ "Show" }, 2, 2, {})
    /\ calc.input.episode_number = 1
    /\ C26Found = ResolverOk(Some(2))

\* The files add_torrent includes for the file_indices that an applied
\* handle_torrent_source gave to register_torrent.
C29Added ==
    IncludedFrom(calc.input.names, 0, calc.result[1].file_indices[1])

\* C29: the index given to register_torrent is the chosen file's index in
\* the backend's full listing, so the one file add_torrent includes for it
\* is the video file the resolver chose, also behind files that are no
\* videos.
C29_IndexInListing ==
    (C26Applied /\ calc.result[1].file_indices # NoneV) =>
        /\ calc.result[1].file_indices[1] = << C26Found.value[1] >>
        /\ Len(C29Added) = 1
        /\ \E i \in 1 .. Len(C26Files) :
               /\ C26Files[i].name = C29Added[1].name
               /\ C26Files[i].index = C29Added[1].index
               /\ C26Target(C26Files[i])

\* Episode 2 chosen behind a text file and an opening.
C29_Witness ==
    /\ C26Applied
    /\ calc.input.names = << "notes.txt", "Show NCOP 01.mkv",
                             "Show - 02.mkv" >>
    /\ calc.result[1].file_indices = Some(<< 2 >>)
    /\ C29Added = << TorrentFile(2, "Show - 02.mkv") >>

\* C30: under any interleaving of GET /torrent/{h} handlers, with a fresh
\* id from every add_torrent, the current-video slot never names a torrent
\* id that cancel_torrent was already called for.
C30_SlotNotCancelled ==
    (IsSome(current_video) /\ current_video[1].tag = "Torrent") =>
        current_video[1].torrent_id \notin cancelled

\* A stored session after a cancelled one, while another handler holds a
\* third session it has added and not yet stored.
C30_Witness ==
    /\ cancelled # {}
    /\ IsSome(current_video)
    /\ current_video[1].tag = "Torrent"
    /\ \E c \in Clients :
           /\ pc[c] = "store"
           /\ local[c].torrent[1].id # current_video[1].torrent_id
           /\ local[c].torrent[1].id \notin cancelled

\* C31: GET /torrent/{h} takes the entry out of the video cache before any
\* other check and no failure puts it back, so the same key then answers
\* 404; an unknown key fails with NotFound whatever the backend slot holds,
\* a missing backend with TorrentSupportDisabled whatever the entry is, and
\* only then an Http entry with InvalidRequestType.
C31_ConsumedFirst ==
    [][\A c \in Clients :
          /\ \A h \in Keys :
                 torrent_remove(c, h) =>
                     /\ ~CacheHas(video_requests', h)
                     /\ ~CacheHas(video_requests, h) =>
                            /\ out' = NotFound("GET /torrent")
                            /\ out'.status = 404
                     /\ CacheHas(video_requests, h) =>
                            /\ pc'[c] = "backend"
                            /\ local'[c].entry = Some(video_requests[h])
          /\ (pc[c] = "backend" /\ pc'[c] # "backend") =>
                 /\ video_requests' = video_requests
                 /\ ~torrent_backend =>
                        out' = TorrentSupportDisabled("GET /torrent")
                 /\ (torrent_backend /\ local[c].entry[1].tag # "Torrent") =>
                        out' = InvalidRequestType("GET /torrent")
                 /\ (torrent_backend /\ local[c].entry[1].tag = "Torrent") =>
                        pc'[c] = "take"
          /\ (pc[c] = "add" /\ pc'[c] = "idle") =>
                 /\ video_requests' = video_requests
                 /\ out' = TorrentBackendError("GET /torrent")]_vars

\* A registered torrent whose add_torrent failed: the request is over and
\* the entry it was registered under is gone from the cache.
C31_Witness ==
    /\ AllIdle
    /\ added = 0
    /\ torrent_backend
    /\ video_requests = EmptyCache
    /\ out = TorrentBackendError("GET /torrent")

\* The handlers of GET /torrent/{h} that hold an entry they took out of the
\* video cache.
C32Holders == { c \in Clients : pc[c] # "idle" }

\* C32: of the concurrent GET /torrent/{h} requests that follow one
\* registration at most one obtains the entry, which is then gone from the
\* cache, and every other one is answered 404; add_torrent is called by
\* that one request only.
C32_SingleUse ==
    [][/\ Cardinality(C32Holders') <= 1
       /\ \A c \in C32Holders' : ~CacheHas(video_requests', local'[c].key)
       /\ \A c \in Clients : \A h \in Keys :
              (torrent_remove(c, h) /\ C32Holders # {}) =>
                  /\ out' = NotFound("GET /torrent")
                  /\ out'.status = 404
                  /\ pc'[c] = "idle"
       /\ added' # added => C32Holders = C32Holders']_vars

\* One handler has added the torrent and is about to store it while
\* another request for the same key has been answered 404.
C32_Witness ==
    /\ \E c \in Clients : pc[c] = "store"
    /\ out = NotFound("GET /torrent")
    /\ added = 1

\* The key of the source registered twice.
C33Key == get_torrent_source_hash(calc.input.source)

\* C33: registering one source twice with different file indices returns
\* the same URL both times and leaves one cache entry, which holds the later
\* indices; the first GET /torrent/{h} adds the torrent with the later
\* indices, and no second add_torrent follows.
C33_LaterIndices ==
    (calc.fn = "register_torrent" /\ Len(calc.result) = 2) =>
        /\ calc.result[1] = calc.result[2]
        /\ calc.result[2] = ProxyUrl("torrent", C33Key)
        /\ DOMAIN video_requests \subseteq { C33Key }
        /\ CacheHas(video_requests, C33Key) =>
               /\ video_requests[C33Key]
                      = RequestTorrent(calc.input.source, calc.input.second)
               /\ added = 0
               /\ \A c \in Clients : pc[c] = "idle"
        /\ \A c \in Clients :
               /\ local[c].entry # NoneV =>
                      local[c].entry[1].file_indices = calc.input.second
               /\ local[c].call # NoneV =>
                      local[c].call[1]
                          = [source |-> calc.input.source,
                             file_indices |-> calc.input.second]
        /\ added <= 1
        /\ Cardinality({ c \in Clients : pc[c] # "idle" }) <= 1

\* After two registrations with different indices the torrent was added
\* once and a second GET of the same URL was answered 404.
C33_Witness ==
    /\ calc.fn = "register_torrent"
    /\ Len(calc.result) = 2
    /\ calc.input.first = << 0 >>
    /\ calc.input.second = << 1 >>
    /\ added = 1
    /\ current_video = Some(CurrentVideoTorrent(1))
    /\ out = NotFound("GET /torrent")

\* C34: a facade call holds the extension's read guard from its start to
\* its return and takes it at no other time, and a load_extension that
\* waits for the write guard gets it and completes once the calls under
\* way have returned.
C34_NoDeadlock ==
    /\ [][\A c \in Clients :
              /\ (c \in extension_readers' /\ c \notin extension_readers)
                     => (fpc[c] = "idle" /\ fpc'[c] # "idle")
              /\ (c \in extension_readers /\ c \notin extension_readers')
                     => fpc'[c] = "idle"]_vars
    /\ \A c \in Clients : (fpc[c] = "replace") ~> (fpc[c] = "idle")

\* A load_extension waits for the write guard while a call that holds the
\* read guard is resolving the episode's file.
C34_Witness ==
    \E c, d \in Clients :
        /\ fpc[c] = "replace"
        /\ fpc[d] = "resolve"
        /\ d \in extension_readers

\* The video files an applied handle_torrent_source gave to find_episode.
C35Files ==
    SelectSeq(list_files(calc.input.names), LAMBDA f : is_video(f.name))

\* C35: for fixed files, fixed search responses and a fixed episode number
\* find_episode returns the same answer in whatever order it visits the
\* title-key groups, also when two confirmed groups both hold the episode.
C35_Deterministic ==
    C26Applied =>
        \A order \in GroupOrders(C35Files) :
            TorrentFileResolver_find_episode(C35Files, calc.input.ext,
                                             calc.input.episode_number, order)
                = C26Found

\* The request carries Range: bytes=start-end or bytes=start- with numbers
\* that parse, for a file that is not empty.
C36Parseable ==
    /\ calc.fn = "handle_stream_request"
    /\ calc.input.total_len >= 1
    /\ IsSome(calc.result)
    /\ IsSome(calc.input.header)
    /\ calc.input.header[1].unit = "bytes"
    /\ calc.input.header[1].start.kind = "num"
    /\ calc.input.header[1].end.kind \in { "num", "empty" }

\* C36: for every parseable Range header on a file of length L, also with
\* start > end, start > L or end >= L, the length end + 1 - start (L - start
\* without an end) is computed without underflow of the unsigned
\* subtraction and the declared Content-Length is at most L - start.
C36_NoUnderflow ==
    C36Parseable =>
        LET start == calc.input.header[1].start.n
            L == calc.input.total_len
            end == IF calc.input.header[1].end.kind = "num"
                   THEN calc.input.header[1].end.n + 1
                   ELSE L
            r == calc.result[1]
        IN  /\ ~r.panic
            /\ r.content_length = end - start
            /\ r.content_length <= L - start

====
